---- MODULE Spec2Model ----
(***************************************************************************)
(* Model of the mcloud cluster bootstrap: the `mcloudctl init` command      *)
(* (InitCommand, validateClusterName, bootstrap, bootstrapDatabase), the    *)
(* SQLite repositories it writes through, the subsystem bootstrap calls     *)
(* (lxd, microovn, microceph), the `join` command, the bootstrap-token      *)
(* repository and the WithTx transaction helper.                            *)
(***************************************************************************)
EXTENDS Integers, Sequences, FiniteSets, TLC

(***************************************************************************)
(* Bounds of the model.                                                     *)
(***************************************************************************)
MaxRuns == 2
MaxJoins == 2
MaxTime == 2
MaxTxOps == 3
MaxRequests == 1

\* len(name) < 3 is rejected (validateClusterName)
MinNameLen == 3

\* clusterID[:8] in GenerateJoinToken
PrefixLen == 8
\* make([]byte, 32) and tokenRandom[:16] in GenerateJoinToken
RandLen == 32
SuffixLen == 16

Runs == 1..MaxRuns
Joins == 1..MaxJoins
Times == 0..MaxTime

\* cluster names given on the command line: one too short, two acceptable
Names == {"ab", "abc", "xyz"}

\* the machine the command runs on: os.Hostname() and GetAllIPs()
Hosts == { [hostname |-> "node1", ips |-> <<"10.0.0.5">>],
           [hostname |-> "node1", ips |-> <<>>] }

\* utils.GenerateUUID(): a fresh identifier per call, never repeated
ClusterUUID(r) == <<"cluster", r>>
NodeUUID(r) == <<"node", r>>

VARIABLES
  db,      \* the SQLite database: committed rows of each table
  run,     \* one record per invocation of InitCommand / bootstrap
  files,   \* files on the node: certificates, config.yaml, state.yaml
  host,    \* the detected host (hostname and IPv4 addresses)
  now,     \* wall clock
  join,    \* one record per invocation of JoinCommand
  tx       \* the transaction opened by WithTx

vars == <<db, run, files, host, now, join, tx>>

(***************************************************************************)
(* The database schema (001_init.sql) and the repositories.                 *)
(* PRAGMA foreign_keys is never switched on by Connect, so SQLite does not   *)
(* enforce the FOREIGN KEY clauses; PRIMARY KEY, UNIQUE and CHECK are.       *)
(***************************************************************************)
ClusterStates == {"init", "active", "degraded"}
NodeRolesSQL == {"leader", "worker"}
NodeStatuses == {"joining", "online", "offline"}

EmptyDB == [clusters |-> {}, nodes |-> {}, tokens |-> {}, cas |-> {}, kv |-> {}]

\* result of a statement: the error ("" is nil) and the database afterwards
Res(e, d) == [err |-> e, db |-> d]

\* The rowid SQLite gives a new row of a table without INTEGER PRIMARY KEY:
\* one more than the largest rowid in the table (kept here as the rank of
\* the row among those of the table).  clusters has no index on
\* name, so a SELECT ... WHERE name = ? walks the table in rowid order.
NextRowid(rows) ==
  IF rows = {} THEN 1
  ELSE 1 + (CHOOSE m \in {x.rowid : x \in rows} : \A x \in rows : x.rowid <= m)

\* ClusterRepository.Create: INSERT INTO clusters
ClusterCreate(d, c) ==
  IF \E x \in d.clusters : x.id = c.id THEN Res("constraint", d)
  ELSE IF c.state \notin ClusterStates THEN Res("constraint", d)
  ELSE Res("", [d EXCEPT !.clusters = @ \cup
         {[id |-> c.id, name |-> c.name, state |-> c.state,
           rowid |-> NextRowid(d.clusters)]}])

\* an INSERT INTO nodes that stores the node as still joining
NodeCreateJoining(d, n) ==
  Res("", [d EXCEPT !.nodes = @ \cup {[n EXCEPT !.status = "joining"]}])

\* NodeRepository.Create: INSERT INTO nodes
NodeCreate(d, n) ==
  IF \E x \in d.nodes : x.id = n.id THEN Res("constraint", d)
  ELSE IF \E x \in d.nodes : x.cluster_id = n.cluster_id /\ x.hostname = n.hostname
    THEN Res("constraint", d)
  ELSE IF \E x \in d.nodes : x.cluster_id = n.cluster_id /\ x.ip = n.ip
    THEN Res("constraint", d)
  ELSE IF n.role \notin NodeRolesSQL \/ n.status \notin NodeStatuses
    THEN Res("constraint", d)
  ELSE Res("", [d EXCEPT !.nodes = @ \cup {n}])

\* ClusterRepository.GetByName: QueryRow(...).Scan takes the first row the
\* SELECT yields, the matching row of the smallest rowid, and returns
\* sql.ErrNoRows when no row matches; GetByName hands that error on with a
\* nil cluster (<<>> is the nil pointer, <<c>> a pointer to the Cluster c).
GetByName(d, name) ==
  LET hits == {x \in d.clusters : x.name = name} IN
  IF hits # {}
    THEN LET first == CHOOSE x \in hits : \A y \in hits : x.rowid <= y.rowid
         IN [cluster |-> <<[id |-> first.id, name |-> first.name,
                            state |-> first.state]>>,
             err |-> ""]
    ELSE [cluster |-> <<>>, err |-> "sql: no rows in result set"]

\* ClusterRepository.Count: SELECT COUNT(*) FROM clusters
Count(d) == Cardinality(d.clusters)

(***************************************************************************)
(* validateClusterName.  conn is FALSE when database.Connect failed in       *)
(* InitCommand (the error is only logged, the nil *sql.DB is used): the      *)
(* query then dereferences a nil pointer and the process panics.             *)
(***************************************************************************)
ErrShort == "cluster name must be at least 3 characters"
ErrCheck == "failed to check existing clusters"
ErrExists == "a cluster with the name already exists"
Panic == "panic"

validateClusterName(name, conn, d) ==
  IF Len(name) < MinNameLen THEN ErrShort
  ELSE IF ~conn THEN Panic
  ELSE LET got == GetByName(d, name) IN
       IF got.err # "" THEN ErrCheck
       ELSE IF got.cluster # <<>> THEN ErrExists
       ELSE ""

Range(q) == {q[i] : i \in 1..Len(q)}

(***************************************************************************)
(* Initial state: an empty, migrated database, no files, no run started.     *)
(***************************************************************************)
IdleRun == [pc |-> "idle", entry |-> "none", name |-> "", err |-> "",
            log |-> <<>>, failed |-> {}, pre |-> 0, retry |-> FALSE,
            ret |-> <<>>, reqs |-> <<>>, ca |-> <<>>, leaf |-> <<>>]

NoFiles == [ca |-> 0, server |-> 0, config |-> 0, state |-> 0]

IdleJoin == [pc |-> "idle", token |-> "", err |-> "", valid |-> FALSE,
             expired |-> FALSE, used |-> FALSE]

NoTx == [state |-> "none", db |-> EmptyDB, pre |-> EmptyDB, locked |-> FALSE,
         writes |-> {}, n |-> 0, err |-> ""]

Init ==
  /\ db = EmptyDB
  /\ run = [r \in Runs |-> IdleRun]
  /\ files = NoFiles
  /\ host \in Hosts
  /\ now = 0
  /\ join = [j \in Joins |-> IdleJoin]
  /\ tx = NoTx

Done(r) == run[r].pc \in {"ok", "err", "panic"}

\* a statement outside a transaction waits while a transaction holds the
\* write lock of the database file
WriteLockFree == ~tx.locked

Fail(r, e) == [run[r] EXCEPT !.pc = "err", !.err = e]
Crash(r) == [run[r] EXCEPT !.pc = "panic", !.err = Panic]

(***************************************************************************)
(* InitCommand: load config, connect, detect host, validate the cluster      *)
(* name, write the config file, then bootstrap and write the state file.     *)
(* cfgOk / connOk: whether config.GetConfig and database.Connect succeeded   *)
(* (their errors are logged and execution goes on); wrOk: whether            *)
(* config.SaveConfig succeeded.                                              *)
(***************************************************************************)
WasRetry(name) ==
  \E q \in Runs : Done(q) /\ run[q].name = name /\ "ovn" \in run[q].failed

\* an InitCommand that writes the config file before it validates the name
InitCommandWritesConfigFirst(r, name, cfgOk, connOk, wrOk) ==
  /\ run[r].pc = "idle"
  /\ LET v == validateClusterName(name, connOk, db)
         me == [run[r] EXCEPT !.entry = "InitCommand", !.name = name,
                              !.pre = Count(db)]
     IN
     IF v = Panic \/ host.ips = <<>>
       THEN /\ run' = [run EXCEPT ![r] = [me EXCEPT !.pc = "panic", !.err = Panic]]
            /\ files' = files
     ELSE IF v # ""
       THEN /\ run' = [run EXCEPT ![r] = [me EXCEPT !.pc = "err", !.err = v]]
            /\ files' = [files EXCEPT !.config = r]
     ELSE /\ run' = [run EXCEPT ![r] = [me EXCEPT !.pc = "gen_cert"]]
          /\ files' = [files EXCEPT !.config = r]
  /\ UNCHANGED <<db, host, now, join, tx>>

InitCommand(r, name, cfgOk, connOk, wrOk) ==
  /\ run[r].pc = "idle"
  /\ LET v == validateClusterName(name, connOk, db)
         me == [run[r] EXCEPT !.entry = "InitCommand", !.name = name,
                              !.pre = Count(db),
                              !.retry = cfgOk /\ connOk /\ Len(name) >= MinNameLen
                                        /\ WasRetry(name)]
     IN
     IF v = Panic
       THEN /\ run' = [run EXCEPT ![r] = [me EXCEPT !.pc = "panic", !.err = Panic]]
            /\ files' = files
     ELSE IF v # ""
       THEN /\ run' = [run EXCEPT ![r] = [me EXCEPT !.pc = "err", !.err = v]]
            /\ files' = files
     ELSE IF host.ips = <<>>
       \* writeConfig: host.IPs[0] on an empty slice
       THEN /\ run' = [run EXCEPT ![r] = [me EXCEPT !.pc = "panic", !.err = Panic]]
            /\ files' = files
     ELSE IF ~wrOk
       THEN /\ run' = [run EXCEPT ![r] = [me EXCEPT !.pc = "err", !.err = "write config"]]
            /\ files' = files
     ELSE IF ~cfgOk
       \* bootstrap(..., *cfg) with cfg == nil
       THEN /\ run' = [run EXCEPT ![r] = [me EXCEPT !.pc = "panic", !.err = Panic]]
            /\ files' = [files EXCEPT !.config = r]
     ELSE /\ run' = [run EXCEPT ![r] = [me EXCEPT !.pc = "gen_cert"]]
          /\ files' = [files EXCEPT !.config = r]
  /\ UNCHANGED <<db, host, now, join, tx>>

(***************************************************************************)
(* The certificates of internal/cert and the library calls they are made    *)
(* with.  A text is a sequence of characters, an IP a sequence of bytes (4   *)
(* or 16; <<>> is the nil IP), a validity is counted in days.                *)
(***************************************************************************)
\* constant.RootCACommonName and constant.AppServerName
RootCACommonName == "MCloud Cluster CA"
AppServerName == "mcloud-server"

\* NotAfter - NotBefore: 10 * 365 * 24 * time.Hour for the CA,
\* 365 * 24 * time.Hour * 10 for the server certificate
CAValidityDays == 10 * 365
ServerCertValidityDays == 365 * 10

\* net.IP.To4: the 4 bytes of an IPv4 address, also when it is stored in 16
\* bytes as ::ffff:a.b.c.d; nil (<<>>) for anything else
To4(ip) ==
  IF Len(ip) = 4 THEN ip
  ELSE IF /\ Len(ip) = 16
          /\ \A i \in 1..10 : ip[i] = 0
          /\ ip[11] = 255 /\ ip[12] = 255
    THEN SubSeq(ip, 13, 16)
  ELSE <<>>

\* net.IPv4(a, b, c, d): the address in its 16-byte form
Mapped(a, b, c, d) == <<0, 0, 0, 0, 0, 0, 0, 0, 0, 0, 255, 255, a, b, c, d>>

\* the characters of net.IP.String() for the addresses a host may have
Text(s) ==
  IF s = "10.0.0.5" THEN <<"1", "0", ".", "0", ".", "0", ".", "5">>
  ELSE IF s = "::1" THEN <<":", ":", "1">>
  ELSE <<>>

DecDigits == <<"0", "1", "2", "3", "4", "5", "6", "7", "8", "9">>
HexLower == <<"a", "b", "c", "d", "e", "f">>
HexUpper == <<"A", "B", "C", "D", "E", "F">>

\* the value of a digit, -1 for any other character
DecVal(c) ==
  IF \E i \in 1..10 : DecDigits[i] = c
    THEN (CHOOSE i \in 1..10 : DecDigits[i] = c) - 1
  ELSE -1
HexVal(c) ==
  IF DecVal(c) >= 0 THEN DecVal(c)
  ELSE IF \E i \in 1..6 : HexLower[i] = c
    THEN (CHOOSE i \in 1..6 : HexLower[i] = c) + 9
  ELSE IF \E i \in 1..6 : HexUpper[i] = c
    THEN (CHOOSE i \in 1..6 : HexUpper[i] = c) + 9
  ELSE -1

\* strconv.Itoa for n >= 0, as the verb %d prints it
RECURSIVE Itoa(_)
Itoa(n) ==
  IF n < 10 THEN <<DecDigits[n + 1]>>
  ELSE Append(Itoa(n \div 10), DecDigits[(n % 10) + 1])

\* fmt.Sprintf("%s:%d", host, port)
Sprintf(h, port) == h \o <<":">> \o Itoa(port)

\* the limit of dtoi and xtoi
Big == 16777215

\* the one element of a set of one element: {e(x) : x \in {v}} computes v
\* once and e from its value
Only(S) == CHOOSE v \in S : TRUE

\* dtoi of package net: the decimal number s starts with, the number of
\* characters it takes and whether there is one
RECURSIVE dtoiFrom(_, _, _)
dtoiFrom(s, i, n) ==
  IF i < Len(s) /\ DecVal(s[i + 1]) >= 0
    THEN LET m == n * 10 + DecVal(s[i + 1]) IN
         IF m >= Big THEN [n |-> Big, c |-> i, ok |-> FALSE]
         ELSE dtoiFrom(s, i + 1, m)
  ELSE IF i = 0 THEN [n |-> 0, c |-> 0, ok |-> FALSE]
  ELSE [n |-> n, c |-> i, ok |-> TRUE]

dtoi(s) == Only({dtoiFrom(x, 0, 0) : x \in {s}})

\* xtoi of package net: the same for a hexadecimal number
RECURSIVE xtoiFrom(_, _, _)
xtoiFrom(s, i, n) ==
  IF i < Len(s) /\ HexVal(s[i + 1]) >= 0
    THEN LET m == n * 16 + HexVal(s[i + 1]) IN
         IF m >= Big THEN [n |-> 0, c |-> i, ok |-> FALSE]
         ELSE xtoiFrom(s, i + 1, m)
  ELSE IF i = 0 THEN [n |-> 0, c |-> 0, ok |-> FALSE]
  ELSE [n |-> n, c |-> i, ok |-> TRUE]

xtoi(s) == Only({xtoiFrom(x, 0, 0) : x \in {s}})

\* parseIPv4 of package net: four decimal fields of at most 255, without
\* leading zeros, separated by dots, and nothing after them
RECURSIVE parseIPv4From(_, _, _)
parseIPv4From(s, i, p) ==
  IF i = 4
    THEN IF Len(s) # 0 THEN <<>> ELSE Mapped(p[1], p[2], p[3], p[4])
  ELSE IF Len(s) = 0 THEN <<>>
  ELSE IF i > 0 /\ s[1] # "." THEN <<>>
  ELSE Only({LET d == dtoi(t) IN
             IF ~d.ok \/ d.n > 255 THEN <<>>
             ELSE IF d.c > 1 /\ t[1] = "0" THEN <<>>
             ELSE Only({parseIPv4From(rest, i + 1, q) :
                          rest \in {SubSeq(t, d.c + 1, Len(t))},
                          q \in {Append(p, d.n)}})
             : t \in {IF i > 0 THEN Tail(s) ELSE s}})

parseIPv4(s) == Only({parseIPv4From(x, 0, <<>>) : x \in {s}})

\* the end of parseIPv6: the whole text must be used; fewer than 16 bytes
\* are filled up with zeros where the "::" stood
parseIPv6End(s, ip, ellipsis) ==
  IF Len(s) # 0 THEN <<>>
  ELSE IF Len(ip) < 16
    THEN IF ellipsis < 0 THEN <<>>
         ELSE SubSeq(ip, 1, ellipsis) \o [k \in 1..(16 - Len(ip)) |-> 0]
              \o SubSeq(ip, ellipsis + 1, Len(ip))
  ELSE IF ellipsis >= 0 THEN <<>>
  ELSE ip

\* the loop of parseIPv6: hexadecimal groups of 16 bits separated by colons,
\* at most one "::", an IPv4 address in dotted form allowed at the end
RECURSIVE parseIPv6Loop(_, _, _)
parseIPv6Loop(s, ip, ellipsis) ==
  IF Len(ip) >= 16 THEN parseIPv6End(s, ip, ellipsis)
  ELSE Only({
    IF ~x.ok \/ x.n > 65535 THEN <<>>
    ELSE IF x.c < Len(s) /\ s[x.c + 1] = "."
      THEN IF ellipsis < 0 /\ Len(ip) # 12 THEN <<>>
           ELSE IF Len(ip) + 4 > 16 THEN <<>>
           ELSE Only({IF ip4 = <<>> THEN <<>>
                      ELSE parseIPv6End(<<>>, ip \o SubSeq(ip4, 13, 16), ellipsis)
                      : ip4 \in {parseIPv4(s)}})
    ELSE Only({
           IF Len(s2) = 0 THEN parseIPv6End(s2, ip2, ellipsis)
           ELSE IF s2[1] # ":" \/ Len(s2) = 1 THEN <<>>
           ELSE IF s2[2] = ":"
             THEN IF ellipsis >= 0 THEN <<>>
                  ELSE IF Len(s2) = 2 THEN parseIPv6End(<<>>, ip2, Len(ip2))
                  ELSE parseIPv6Loop(SubSeq(s2, 3, Len(s2)), ip2, Len(ip2))
           ELSE parseIPv6Loop(Tail(s2), ip2, ellipsis)
           : ip2 \in {ip \o <<x.n \div 256, x.n % 256>>},
             s2 \in {SubSeq(s, x.c + 1, Len(s))}})
    : x \in {xtoi(s)}})

parseIPv6(s) ==
  Only({IF Len(x) >= 2 /\ x[1] = ":" /\ x[2] = ":"
          THEN IF Len(x) = 2 THEN [k \in 1..16 |-> 0]
               ELSE parseIPv6Loop(SubSeq(x, 3, Len(x)), <<>>, 0)
        ELSE parseIPv6Loop(x, <<>>, -1)
        : x \in {s}})

\* net.ParseIP: the first "." or ":" of the text decides between the two
\* forms; a text that is neither gives nil
ParseIP(s) ==
  Only({IF \A i \in 1..Len(x) : x[i] \notin {".", ":"} THEN <<>>
        ELSE Only({IF x[first] = "." THEN parseIPv4(x) ELSE parseIPv6(x)
                   : first \in {CHOOSE i \in 1..Len(x) :
                                  /\ x[i] \in {".", ":"}
                                  /\ \A j \in 1..(i - 1) : x[j] \notin {".", ":"}}})
        : x \in {s}})

\* rsa.GenerateKey(rand.Reader, bits): every call draws a key pair of its
\* own; n stands for the modulus, d for the private exponent, both named
\* after the call (run r, use "ca" or "server")
GenerateKey(r, use) == [n |-> <<use, r>>, d |-> <<use, r>>]

\* &key.PublicKey
PublicKey(key) == [n |-> key.n]

\* rsa.SignPKCS1v15 and rsa.VerifyPKCS1v15: a signature is made by a private
\* exponent over a content, and holds under the public key of the same pair
\* for the same content
SignPKCS1v15(key, tbs) == [d |-> key.d, tbs |-> tbs]
VerifyPKCS1v15(pub, tbs, sig) == sig.d = pub.n /\ sig.tbs = tbs

\* x509.CreateCertificate(rand, template, parent, pub, priv): the issuer is
\* the subject of parent, the basic constraints say CA only when the template
\* has BasicConstraintsValid, every entry of IPAddresses becomes an IP SAN of
\* To4's 4 bytes or, when To4 gives nil, of the bytes of the entry as they
\* are (none for a nil IP); the content is signed with priv
CreateCertificate(template, parent, pub, priv) ==
  Only({[tbs |-> tbs, sig |-> SignPKCS1v15(priv, tbs)] :
          tbs \in {[subject |-> t.subject, issuer |-> parent.subject,
                    pub |-> pub,
                    notBefore |-> t.notBefore, notAfter |-> t.notAfter,
                    keyUsage |-> t.keyUsage,
                    extKeyUsage |-> t.extKeyUsage,
                    isCA |-> t.basicConstraintsValid /\ t.isCA,
                    san |-> [i \in 1..Len(t.ips) |->
                               IF To4(t.ips[i]) # <<>> THEN To4(t.ips[i])
                               ELSE t.ips[i]]] : t \in {template}}})

\* x509.ParseCertificate: an IP SAN that has neither 4 nor 16 bytes is an
\* error (<<>>)
ParseCertificate(der) ==
  IF \E i \in 1..Len(der.tbs.san) : Len(der.tbs.san[i]) \notin {4, 16}
    THEN <<>>
  ELSE <<der>>

\* x509.Certificate.isValid, as far as it applies to these certificates:
\* the time t is not before NotBefore and not after NotAfter
ValidAt(c, t) == c.tbs.notBefore <= t /\ t <= c.tbs.notAfter

\* x509.Certificate.CheckSignatureFrom(parent): the parent has the basic
\* constraints of a CA, its key usage is absent or allows signing of
\* certificates, and the signature holds under the parent's public key
CheckSignatureFrom(c, parent) ==
  /\ parent.tbs.isCA
  /\ parent.tbs.keyUsage = {} \/ "CertSign" \in parent.tbs.keyUsage
  /\ VerifyPKCS1v15(parent.tbs.pub, c.tbs, c.sig)

\* whether a certificate allows the extended key usage u: one without
\* extended key usages allows all, and so does one with the usage "Any"
AllowsUsage(c, u) ==
  c.tbs.extKeyUsage = {} \/ "Any" \in c.tbs.extKeyUsage \/ u \in c.tbs.extKeyUsage

\* x509.Certificate.Verify with VerifyOptions{Roots: a pool that holds the
\* one CA certificate, CurrentTime: t, KeyUsages: keyUsages}.  Both
\* certificates must parse (a CA certificate that does not parse is not in
\* the pool).  The certificate is valid at t and either is the root itself
\* or names the root's subject as issuer, is signed by it, and the root is
\* valid at t.  No requested usage means "ServerAuth"; the requested usage
\* "Any" asks for none; otherwise one requested usage must be allowed by
\* every certificate of the chain.
Verify(der, caDer, t, keyUsages) ==
  LET c == ParseCertificate(der)
      ca == ParseCertificate(caDer)
      req == IF keyUsages = {} THEN {"ServerAuth"} ELSE keyUsages
  IN /\ c # <<>> /\ ca # <<>>
     /\ ValidAt(c[1], t)
     /\ \/ c[1] = ca[1]
        \/ /\ c[1].tbs.issuer = ca[1].tbs.subject
           /\ CheckSignatureFrom(c[1], ca[1])
           /\ ValidAt(ca[1], t)
     /\ \/ "Any" \in req
        \/ \E u \in req : AllowsUsage(c[1], u) /\ AllowsUsage(ca[1], u)

\* The verification StartGRPCServer configures (ClientAuth:
\* RequireAndVerifyClientCert, ClientCAs: caPool): crypto/tls verifies the
\* certificate a peer presents against the pool for the usage "ClientAuth"
VerifyClientCert(der, caDer, t) == Verify(der, caDer, t, {"ClientAuth"})

\* the usages a verification can ask for
KeyUsageOptions == {{}, {"ServerAuth"}, {"ClientAuth"}, {"Any"}}

\* cert.GenerateCAV2, called by run r at time t: a new key, a template and
\* the self-signed certificate made from it.  The function returns the
\* template and the key (cert, key); der is what it hands to writePEM.
GenerateCAV2(r, t) ==
  LET key == GenerateKey(r, "ca")
      cert == [subject |-> RootCACommonName,
               notBefore |-> t, notAfter |-> t + CAValidityDays,
               keyUsage |-> {"CertSign", "CRLSign"}, extKeyUsage |-> {},
               isCA |-> TRUE, basicConstraintsValid |-> TRUE, ips |-> <<>>]
  IN [cert |-> cert, key |-> key,
      der |-> CreateCertificate(cert, cert, PublicKey(key), key)]

\* cert.GenerateServerCert(ca, caKey, addr, ...), called by run r at time t:
\* a new key and a certificate with the IP SAN net.ParseIP(addr), whose
\* parent is ca and which is signed with caKey; the result is what it hands
\* to writePEM
GenerateServerCert(ca, caKey, addr, r, t) ==
  LET key == GenerateKey(r, "server")
      cert == [subject |-> AppServerName,
               notBefore |-> t, notAfter |-> t + ServerCertValidityDays,
               keyUsage |-> {"DigitalSignature", "KeyEncipherment"},
               extKeyUsage |-> {"ServerAuth"},
               isCA |-> FALSE, basicConstraintsValid |-> FALSE,
               ips |-> <<ParseIP(addr)>>]
  IN CreateCertificate(cert, ca, PublicKey(key), caKey)

(***************************************************************************)
(* bootstrap(ctx, name, host, nodeId, clusterId, cfg), entered directly      *)
(* with a name that is long enough (its only caller checks the length).      *)
(***************************************************************************)
ValidNames == {n \in Names : Len(n) >= MinNameLen}

bootstrap(r, name) ==
  /\ run[r].pc = "idle"
  /\ run' = [run EXCEPT ![r] = [@ EXCEPT !.pc = "gen_cert", !.entry = "bootstrap",
                                         !.name = name, !.pre = Count(db)]]
  /\ UNCHANGED <<db, files, host, now, join, tx>>

\* Step 1, generateCert, first half: GenerateCAV2 makes the CA key and
\* certificate and writes both with writePEM, which drops the errors of
\* os.Create and pem.Encode.
\*   "ca_err"  key generation or signing of the CA failed: nothing written
\*   wr        whether writePEM could create the files; when it could not,
\*             GenerateCAV2 returns nil all the same and the files are as
\*             they were
generateCert(r, out, wr) ==
  /\ run[r].pc = "gen_cert"
  /\ IF out = "ca_err"
       THEN /\ run' = [run EXCEPT ![r] = Fail(r, "generate CA")]
            /\ files' = files
     ELSE /\ run' = [run EXCEPT ![r] = [@ EXCEPT !.pc = "gen_srv",
                                                 !.log = Append(@, "cert"),
                                                 !.ca = <<GenerateCAV2(r, now)>>]]
          /\ files' = IF wr THEN [files EXCEPT !.ca = r] ELSE files
  /\ UNCHANGED <<db, host, now, join, tx>>

\* Step 1, generateCert, second half: GenerateServerCert makes an RSA key of
\* 4096 bits, signs the server certificate with the CA of this run and
\* writes both with writePEM.  Other processes run between the two halves.
\*   "srv_panic" rsa.GenerateKey failed (error dropped, key == nil,
\*               &key.PublicKey panics); host.IPs[0] on an empty slice
\*               panics as well
\*   "srv_err"   x509.CreateCertificate failed for the server certificate
\* The address is host.IPs[0].String(); the certificate made is kept in leaf,
\* the CA of the first half in ca (the locals caCert, caKey).
generateCertServer(r, out, wr) ==
  /\ run[r].pc = "gen_srv"
  /\ IF host.ips = <<>> \/ out = "srv_panic"
       THEN /\ run' = [run EXCEPT ![r] = Crash(r)]
            /\ files' = files
     ELSE IF out = "srv_err"
       THEN /\ run' = [run EXCEPT ![r] = Fail(r, "generate server cert")]
            /\ files' = files
     ELSE /\ run' = [run EXCEPT ![r] =
                 [@ EXCEPT !.pc = "db_cluster",
                           !.leaf = <<GenerateServerCert(run[r].ca[1].cert,
                                        run[r].ca[1].key, Text(host.ips[1]), r, now)>>]]
          /\ files' = IF wr THEN [files EXCEPT !.server = r] ELSE files
  /\ UNCHANGED <<db, host, now, join, tx>>

\* Step 2, bootstrapDatabase, first statement: Connect and INSERT the cluster.
\* Each statement runs on the *sql.DB itself and commits on its own.
bootstrapDatabaseCluster(r, connOk, ioOk) ==
  /\ run[r].pc = "db_cluster"
  /\ WriteLockFree
  /\ LET c == [id |-> ClusterUUID(r), name |-> run[r].name, state |-> "active"]
         res == IF ioOk THEN ClusterCreate(db, c) ELSE Res("io", db)
     IN
     IF ~connOk
       THEN /\ run' = [run EXCEPT ![r] = Fail(r, "db connect")]
            /\ db' = db
     ELSE IF res.err # ""
       THEN /\ run' = [run EXCEPT ![r] = Fail(r, res.err)]
            /\ db' = db
     ELSE /\ run' = [run EXCEPT ![r] = [@ EXCEPT !.pc = "db_node",
                                                 !.log = Append(@, "cluster")]]
          /\ db' = res.db
  /\ UNCHANGED <<files, host, now, join, tx>>

\* bootstrapDatabase, second statement: INSERT the leader node.
bootstrapDatabaseNode(r, ioOk) ==
  /\ run[r].pc = "db_node"
  /\ WriteLockFree
  /\ LET n == [id |-> NodeUUID(r), cluster_id |-> ClusterUUID(r),
               hostname |-> host.hostname, ip |-> host.ips[1],
               role |-> "leader", status |-> "online"]
         res == IF ioOk THEN NodeCreate(db, n) ELSE Res("io", db)
     IN
     IF res.err # ""
       THEN /\ run' = [run EXCEPT ![r] = Fail(r, res.err)]
            /\ db' = db
     ELSE /\ run' = [run EXCEPT ![r] = [@ EXCEPT !.pc = "lxd",
                                                 !.log = Append(@, "node")]]
          /\ db' = res.db
  /\ UNCHANGED <<files, host, now, join, tx>>

\* Step 3, lxd.Bootstrap: `lxd init --preseed`; its error is returned.
lxdBootstrap(r, ok) ==
  /\ run[r].pc = "lxd"
  /\ run' = [run EXCEPT ![r] =
       IF ok THEN [@ EXCEPT !.pc = "ovn", !.log = Append(@, "lxd")]
       ELSE [Fail(r, "lxd") EXCEPT !.log = Append(@, "lxd"),
                                   !.failed = @ \cup {"lxd"}]]
  /\ UNCHANGED <<db, files, host, now, join, tx>>

\* a bootstrap that calls microovn.Bootstrap before lxd.Bootstrap
microovnBootstrapBeforeLxd(r, ok) ==
  /\ run[r].pc = "lxd"
  /\ \A i \in 1..Len(run[r].log) : run[r].log[i] # "ovn"
  /\ run' = [run EXCEPT ![r] = [@ EXCEPT !.log = Append(@, "ovn")]]
  /\ UNCHANGED <<db, files, host, now, join, tx>>

\* Step 4, microovn.Bootstrap: `microovn init`; the error is logged and the
\* function returns nil whatever the command did.
microovnBootstrap(r, ok) ==
  /\ run[r].pc = "ovn"
  /\ run' = [run EXCEPT ![r] =
       [@ EXCEPT !.pc = "ceph", !.log = Append(@, "ovn"),
                 !.failed = IF ok THEN @ ELSE @ \cup {"ovn"}]]
  /\ UNCHANGED <<db, files, host, now, join, tx>>

\* Step 5, microceph.Bootstrap: `microceph init` then `microceph disk add`;
\* the first failing command's error is returned.
microcephBootstrap(r, initOk, diskOk) ==
  /\ run[r].pc = "ceph"
  /\ run' = [run EXCEPT ![r] =
       IF initOk /\ diskOk THEN [@ EXCEPT !.pc = "install", !.log = Append(@, "ceph")]
       ELSE [Fail(r, "ceph") EXCEPT !.log = Append(@, "ceph"),
                                    !.failed = @ \cup {"ceph"}]]
  /\ UNCHANGED <<db, files, host, now, join, tx>>

\* Step 6, installer.Init, the last step of bootstrap.  A run of InitCommand
\* goes on to writeState, which is SaveState; a call of bootstrap ends here.
installerInit(r, ok) ==
  /\ run[r].pc = "install"
  /\ run' = [run EXCEPT ![r] =
       IF ~ok THEN Fail(r, "install")
       ELSE [@ EXCEPT !.pc = IF run[r].entry = "InitCommand" THEN "write_state"
                             ELSE "ok",
                      !.log = Append(@, "install")]]
  /\ UNCHANGED <<db, files, host, now, join, tx>>

\* State.SaveState, as writeState calls it (Flags.Initialized = true), by
\* itself or as the last step of InitCommand: config.Load, then os.Create,
\* which truncates whatever file is there, then yaml.Marshal and file.Write.
\*   "create_err"  os.Create failed: the file is as it was
\*   "write_err"   yaml.Marshal or file.Write failed: the error is returned
\*                 and the file, already truncated, stays without a state
SaveState(r, cfgOk, out) ==
  /\ run[r].pc \in {"idle", "write_state"}
  /\ LET me == IF run[r].pc = "idle" THEN [run[r] EXCEPT !.entry = "SaveState"]
               ELSE run[r]
         e == IF run[r].pc = "idle" THEN "" ELSE "write state: "
     IN
     IF ~cfgOk
       THEN /\ run' = [run EXCEPT ![r] = [me EXCEPT !.pc = "err",
                                                     !.err = e \o "load config"]]
            /\ files' = files
     ELSE IF out = "create_err"
       THEN /\ run' = [run EXCEPT ![r] = [me EXCEPT !.pc = "err", !.err = e \o "io"]]
            /\ files' = files
     ELSE IF out = "write_err"
       THEN /\ run' = [run EXCEPT ![r] = [me EXCEPT !.pc = "err", !.err = e \o "write"]]
            /\ files' = [files EXCEPT !.state = r]
     ELSE /\ run' = [run EXCEPT ![r] =
                 [me EXCEPT !.pc = "ok",
                            !.log = IF run[r].pc = "idle" THEN @ ELSE Append(@, "state")]]
          /\ files' = [files EXCEPT !.state = r]
  /\ UNCHANGED <<db, host, now, join, tx>>

InitNext ==
  \E r \in Runs :
    \/ \E name \in Names, cfgOk \in BOOLEAN, connOk \in BOOLEAN, wrOk \in BOOLEAN :
         InitCommand(r, name, cfgOk, connOk, wrOk)
    \/ \E name \in ValidNames : bootstrap(r, name)
    \/ \E out \in {"ok", "ca_err"}, wr \in BOOLEAN : generateCert(r, out, wr)
    \/ \E out \in {"ok", "srv_panic", "srv_err"}, wr \in BOOLEAN :
         generateCertServer(r, out, wr)
    \/ \E connOk \in BOOLEAN, ioOk \in BOOLEAN : bootstrapDatabaseCluster(r, connOk, ioOk)
    \/ \E ioOk \in BOOLEAN : bootstrapDatabaseNode(r, ioOk)
    \/ \E ok \in BOOLEAN : lxdBootstrap(r, ok)
    \/ \E ok \in BOOLEAN : microovnBootstrap(r, ok)
    \/ \E initOk \in BOOLEAN, diskOk \in BOOLEAN : microcephBootstrap(r, initOk, diskOk)
    \/ \E ok \in BOOLEAN : installerInit(r, ok)
    \/ \E cfgOk \in BOOLEAN, out \in {"ok", "create_err", "write_err"} :
         SaveState(r, cfgOk, out)

Spec == Init /\ [][InitNext]_vars

\* InitCommand and bootstrap up to the INSERT of the cluster, the row
\* validateClusterName looks for
PreflightNext ==
  \E r \in Runs :
    \/ \E name \in Names, cfgOk \in BOOLEAN, connOk \in BOOLEAN, wrOk \in BOOLEAN :
         InitCommand(r, name, cfgOk, connOk, wrOk)
    \/ \E name \in ValidNames : bootstrap(r, name)
    \/ \E out \in {"ok", "ca_err"}, wr \in BOOLEAN : generateCert(r, out, wr)
    \/ \E out \in {"ok", "srv_panic", "srv_err"}, wr \in BOOLEAN :
         generateCertServer(r, out, wr)
    \/ \E connOk \in BOOLEAN, ioOk \in BOOLEAN : bootstrapDatabaseCluster(r, connOk, ioOk)

SpecPreflight == Init /\ [][PreflightNext]_vars


(***************************************************************************)
(* The mcloudd daemon (main, startGRPCServer, the /cluster/init handler),    *)
(* the node state file (State.Initialize, State.SaveState) and the           *)
(* credential generators (auth.GenerateJoinToken, cert.GenerateCA).  Each    *)
(* start of the daemon and each call of one of these functions takes a run   *)
(* record of its own.                                                        *)
(***************************************************************************)

\* main of mcloudd: the configuration and the database are loaded (errors
\* are only logged), then startHTTPServer and startGRPCServer are started as
\* goroutines.  With cfg == nil both dereference a nil pointer before either
\* server listens.  Otherwise the HTTP server serves from here on, while
\* startGRPCServer is still making the certificates.
main(r, cfgOk) ==
  /\ run[r].pc = "idle"
  /\ run' = [run EXCEPT ![r] =
       IF cfgOk THEN [@ EXCEPT !.entry = "mcloudd", !.pc = "starting"]
       ELSE [@ EXCEPT !.entry = "mcloudd", !.pc = "panic", !.err = Panic]]
  /\ UNCHANGED <<db, files, host, now, join, tx>>

\* what writeConfig puts in the configuration: GrpcHost is
\* host.IPs[0].String(), GrpcPort is 9030
GrpcHosts == {"10.0.0.5", "::1"}
GrpcPort == 9030

\* the process of the daemon lives: the HTTP server answers, signals arrive
DaemonUp(r) == run[r].pc \in {"starting", "grpc_cert", "serving"}

\* startGRPCServer, first half: GenerateCAV2 is called at every start, on the
\* paths of the configuration; its error is only logged.
\*   "ca_err"  GenerateCAV2 failed: the CA and its key are nil
\*   wr        whether writePEM could create the files (its errors are
\*             dropped)
startGRPCServer(r, out, wr) ==
  /\ run[r].pc = "starting"
  /\ IF out = "ca_err"
       THEN /\ run' = [run EXCEPT ![r] = [@ EXCEPT !.pc = "grpc_cert",
                                                   !.failed = @ \cup {"ca"}]]
            /\ files' = files
     ELSE /\ run' = [run EXCEPT ![r] = [@ EXCEPT !.pc = "grpc_cert",
                                                 !.ca = <<GenerateCAV2(r, now)>>]]
          /\ files' = IF wr THEN [files EXCEPT !.ca = r] ELSE files
  /\ UNCHANGED <<db, host, now, join, tx>>

\* startGRPCServer, second half: GenerateServerCert, then the gRPC server.
\*   a nil CA    x509.CreateCertificate panics on it
\*   "srv_panic" rsa.GenerateKey failed in GenerateServerCert
\*   "srv_err"   x509.CreateCertificate failed: logged, the daemon goes on
\*   h           cfg.Manager.GrpcHost; the address handed to
\*               GenerateServerCert is fmt.Sprintf("%s:%d", h, GrpcPort)
startGRPCServerCert(r, out, wr, h) ==
  /\ run[r].pc = "grpc_cert"
  /\ IF "ca" \in run[r].failed \/ out = "srv_panic"
       THEN /\ run' = [run EXCEPT ![r] = [@ EXCEPT !.pc = "panic", !.err = Panic]]
            /\ files' = files
     ELSE IF out = "srv_err"
       THEN /\ run' = [run EXCEPT ![r] = [@ EXCEPT !.pc = "serving"]]
            /\ files' = files
     ELSE /\ run' = [run EXCEPT ![r] =
                 [@ EXCEPT !.pc = "serving",
                           !.leaf = <<GenerateServerCert(run[r].ca[1].cert,
                                        run[r].ca[1].key,
                                        Sprintf(Text(h), GrpcPort), r, now)>>]]
          /\ files' = IF wr THEN [files EXCEPT !.server = r] ELSE files
  /\ UNCHANGED <<db, host, now, join, tx>>

\* Handler.InitCluster, the handler of /cluster/init: 405 for a method other
\* than POST, 400 when the body is not JSON, and otherwise {"success": true};
\* the call of the service is commented out.  valid: whether the request
\* would pass validateInitRequest; the handler does not look at it.
HandlerInitCluster(r, method, decodeOk, valid) ==
  /\ DaemonUp(r)
  /\ Len(run[r].reqs) < MaxRequests
  /\ LET status == IF method # "POST" THEN "405"
                   ELSE IF ~decodeOk THEN "400"
                   ELSE "200"
         req == [method |-> method, decoded |-> decodeOk, valid |-> valid,
                 existed |-> Count(db) > 0, status |-> status,
                 created |-> FALSE]
     IN run' = [run EXCEPT ![r] = [@ EXCEPT !.reqs = Append(@, req)]]
  /\ UNCHANGED <<db, files, host, now, join, tx>>

\* The interrupt signal: signal.NotifyContext cancels ctx, which main and
\* startHTTPServer both wait on.
signalInterrupt(r) ==
  /\ DaemonUp(r)
  /\ "interrupt" \notin Range(run[r].log)
  /\ run' = [run EXCEPT ![r] = [@ EXCEPT !.log = Append(@, "interrupt")]]
  /\ UNCHANGED <<db, files, host, now, join, tx>>

\* startHTTPServer after <-ctx.Done(): server.Shutdown, given 5 seconds, has
\* returned.  The goroutine runs only while the process lives.
startHTTPServerShutdown(r) ==
  /\ DaemonUp(r)
  /\ "interrupt" \in Range(run[r].log)
  /\ "http shutdown" \notin Range(run[r].log)
  /\ run' = [run EXCEPT ![r] = [@ EXCEPT !.log = Append(@, "http shutdown")]]
  /\ UNCHANGED <<db, files, host, now, join, tx>>

\* main after <-ctx.Done(): it logs and returns, which ends the process and
\* every goroutine; it waits for neither server (no WaitGroup, no channel).
mainReturn(r) ==
  /\ DaemonUp(r)
  /\ "interrupt" \in Range(run[r].log)
  /\ run' = [run EXCEPT ![r] = [@ EXCEPT !.pc = "exited"]]
  /\ UNCHANGED <<db, files, host, now, join, tx>>

\* an Initialize without the os.Stat check
InitializeNoStat(r, cfgOk) ==
  /\ run[r].pc = "idle"
  /\ LET me == [run[r] EXCEPT !.entry = "Initialize"] IN
     IF ~cfgOk
       THEN run' = [run EXCEPT ![r] = [me EXCEPT !.pc = "err", !.err = "load config"]]
     ELSE run' = [run EXCEPT ![r] = [me EXCEPT !.pc = "create"]]
  /\ UNCHANGED <<db, files, host, now, join, tx>>

\* State.Initialize, up to the check: config.Load, then os.Stat refuses when
\* it finds the state file.  Nothing holds the file between the check and
\* os.Create, so another call may run in between.
Initialize(r, cfgOk) ==
  /\ run[r].pc = "idle"
  /\ LET me == [run[r] EXCEPT !.entry = "Initialize"] IN
     IF ~cfgOk
       THEN run' = [run EXCEPT ![r] = [me EXCEPT !.pc = "err", !.err = "load config"]]
     ELSE IF files.state # 0
       THEN run' = [run EXCEPT ![r] = [me EXCEPT !.pc = "err",
                                                  !.err = "node already initialized"]]
     ELSE run' = [run EXCEPT ![r] = [me EXCEPT !.pc = "create"]]
  /\ UNCHANGED <<db, files, host, now, join, tx>>

\* State.Initialize, after the check: os.Create (which truncates a file that
\* is there), yaml.Marshal and file.Write.
\*   "create_err"  os.Create failed: no file is made
\*   "write_err"   yaml.Marshal or file.Write failed: the error is returned
\*                 and the file os.Create made stays, without the state
InitializeCreate(r, out) ==
  /\ run[r].pc = "create"
  /\ run[r].entry = "Initialize"
  /\ IF out = "create_err"
       THEN /\ run' = [run EXCEPT ![r] = [@ EXCEPT !.pc = "err", !.err = "io"]]
            /\ files' = files
     ELSE IF out = "write_err"
       THEN /\ run' = [run EXCEPT ![r] = [@ EXCEPT !.pc = "err", !.err = "write"]]
            /\ files' = [files EXCEPT !.state = r]
     ELSE /\ run' = [run EXCEPT ![r] = [@ EXCEPT !.pc = "ok"]]
          /\ files' = [files EXCEPT !.state = r]
  /\ UNCHANGED <<db, host, now, join, tx>>

\* cluster ids as sequences of characters: a UUID (longer than the prefix
\* taken from it) and an id shorter than the prefix
ClusterIDs == { <<"6","6","0","e","8","4","0","0","-","e">>, <<"c","1">> }

\* what rand.Read put in the 32-byte buffer; <<>> when it failed
Randoms == { <<>>,
             [i \in 1..RandLen |-> 255],
             [i \in 1..RandLen |-> (i * 37 + 11) % 256] }

\* the alphabet of base64.URLEncoding
B64Alphabet ==
  << "A","B","C","D","E","F","G","H","I","J","K","L","M","N","O","P",
     "Q","R","S","T","U","V","W","X","Y","Z","a","b","c","d","e","f",
     "g","h","i","j","k","l","m","n","o","p","q","r","s","t","u","v",
     "w","x","y","z","0","1","2","3","4","5","6","7","8","9","-","_" >>

\* base64.URLEncoding.EncodeToString: three bytes give four characters, the
\* last group is padded with "="
RECURSIVE EncodeToString(_)
EncodeToString(b) ==
  IF Len(b) = 0 THEN <<>>
  ELSE IF Len(b) = 1
    THEN << B64Alphabet[(b[1] \div 4) + 1], B64Alphabet[(b[1] % 4) * 16 + 1],
            "=", "=" >>
  ELSE IF Len(b) = 2
    THEN << B64Alphabet[(b[1] \div 4) + 1],
            B64Alphabet[(b[1] % 4) * 16 + (b[2] \div 16) + 1],
            B64Alphabet[(b[2] % 16) * 4 + 1], "=" >>
  ELSE << B64Alphabet[(b[1] \div 4) + 1],
          B64Alphabet[(b[1] % 4) * 16 + (b[2] \div 16) + 1],
          B64Alphabet[(b[2] % 16) * 4 + (b[3] \div 64) + 1],
          B64Alphabet[(b[3] % 64) + 1] >>
       \o EncodeToString(SubSeq(b, 4, Len(b)))

Insecure == <<"i","n","s","e","c","u","r","e">>

\* auth.GenerateJoinToken(clusterID): "mcloud-" + clusterID[:8] + "-" + the
\* random part, or + "-insecure" when rand.Read returned an error.  The
\* function has no error result; slicing a shorter id panics.
GenerateJoinToken(clusterID, rnd) ==
  IF Len(clusterID) < PrefixLen THEN <<Panic>>
  ELSE IF rnd = <<>> THEN <<"mcloud", SubSeq(clusterID, 1, PrefixLen), Insecure>>
  ELSE <<"mcloud", SubSeq(clusterID, 1, PrefixLen),
         SubSeq(EncodeToString(rnd), 1, SuffixLen)>>

authGenerateJoinToken(r, clusterID, rnd) ==
  /\ run[r].pc = "idle"
  /\ LET t == GenerateJoinToken(clusterID, rnd) IN
     run' = [run EXCEPT ![r] =
       [@ EXCEPT !.entry = "GenerateJoinToken",
                 !.pc = IF t = <<Panic>> THEN "panic" ELSE "ok",
                 !.err = IF t = <<Panic>> THEN Panic ELSE "",
                 !.failed = IF rnd = <<>> THEN {"rand"} ELSE {},
                 !.ret = IF t = <<Panic>> THEN <<>> ELSE t]]
  /\ UNCHANGED <<db, files, host, now, join, tx>>

\* cert.GenerateCA() of internal/cert/ca.go: the CA certificate and key as
\* PEM strings; when rsa.GenerateKey or x509.CreateCertificate fails it
\* returns a placeholder certificate and a placeholder key.  It has no error
\* result.
GenerateCA(keyOk, signOk) ==
  IF ~keyOk \/ ~signOk THEN <<"PLACEHOLDER_CERT", "PLACEHOLDER_KEY">>
  ELSE <<"cert", "key">>

certGenerateCA(r, keyOk, signOk) ==
  /\ run[r].pc = "idle"
  /\ run' = [run EXCEPT ![r] =
       [@ EXCEPT !.entry = "GenerateCA", !.pc = "ok",
                 !.failed = IF keyOk /\ signOk THEN {} ELSE {"crypto"},
                 !.ret = GenerateCA(keyOk, signOk)]]
  /\ UNCHANGED <<db, files, host, now, join, tx>>

\* cert.GenerateCA(certPath, keyPath) of internal/cert/server.go: a CA key
\* of 2048 bits and a self-signed certificate, written to the two paths with
\* writePEM and returned as PEM strings; the error of rsa.GenerateKey or of
\* x509.CreateCertificate is returned and nothing is written then.
certGenerateCAFiles(r, keyOk, signOk, wr) ==
  /\ run[r].pc = "idle"
  /\ IF ~keyOk \/ ~signOk
       THEN /\ run' = [run EXCEPT ![r] =
                 [@ EXCEPT !.entry = "GenerateCA(files)", !.pc = "err",
                           !.err = "generate CA", !.failed = {"crypto"}]]
            /\ files' = files
     ELSE /\ run' = [run EXCEPT ![r] =
                 [@ EXCEPT !.entry = "GenerateCA(files)", !.pc = "ok",
                           !.ret = <<"cert", "key">>]]
          /\ files' = IF wr THEN [files EXCEPT !.ca = r] ELSE files
  /\ UNCHANGED <<db, host, now, join, tx>>

\* The certificate files are shared with bootstrap, whose first step writes
\* them (generateCert); the later steps of bootstrap touch no file the
\* daemon or the state functions use.
NodeNext ==
  \E r \in Runs :
    \/ \E name \in ValidNames : bootstrap(r, name)
    \/ \E out \in {"ok", "ca_err"}, wr \in BOOLEAN : generateCert(r, out, wr)
    \/ \E out \in {"ok", "srv_panic", "srv_err"}, wr \in BOOLEAN :
         generateCertServer(r, out, wr)
    \/ \E cfgOk \in BOOLEAN : main(r, cfgOk)
    \/ \E out \in {"ok", "ca_err"}, wr \in BOOLEAN : startGRPCServer(r, out, wr)
    \/ \E out \in {"ok", "srv_panic", "srv_err"}, wr \in BOOLEAN, h \in GrpcHosts :
         startGRPCServerCert(r, out, wr, h)
    \/ \E cfgOk \in BOOLEAN : Initialize(r, cfgOk)
    \/ \E out \in {"ok", "create_err", "write_err"} : InitializeCreate(r, out)
    \/ \E cfgOk \in BOOLEAN, out \in {"ok", "create_err", "write_err"} :
         SaveState(r, cfgOk, out)
    \/ \E c \in ClusterIDs, rnd \in Randoms : authGenerateJoinToken(r, c, rnd)
    \/ \E keyOk \in BOOLEAN, signOk \in BOOLEAN : certGenerateCA(r, keyOk, signOk)
    \/ \E keyOk \in BOOLEAN, signOk \in BOOLEAN, wr \in BOOLEAN :
         certGenerateCAFiles(r, keyOk, signOk, wr)

SpecNode == Init /\ [][NodeNext]_vars

\* the life of the daemon from its start to its exit on an interrupt, and
\* the requests it answers
DaemonNext ==
  \E r \in Runs :
    \/ \E cfgOk \in BOOLEAN : main(r, cfgOk)
    \/ \E out \in {"ok", "ca_err"}, wr \in BOOLEAN : startGRPCServer(r, out, wr)
    \/ \E out \in {"ok", "srv_panic", "srv_err"}, wr \in BOOLEAN, h \in GrpcHosts :
         startGRPCServerCert(r, out, wr, h)
    \/ \E method \in {"POST", "GET"}, decodeOk \in BOOLEAN, valid \in BOOLEAN :
         HandlerInitCluster(r, method, decodeOk, valid)
    \/ signalInterrupt(r)
    \/ startHTTPServerShutdown(r)
    \/ mainReturn(r)

SpecDaemon == Init /\ [][DaemonNext]_vars

\* the two places that issue certificates: generateCert of bootstrap and
\* startGRPCServer of the daemon
CertNext ==
  \E r \in Runs :
    \/ \E name \in ValidNames : bootstrap(r, name)
    \/ \E out \in {"ok", "ca_err"}, wr \in BOOLEAN : generateCert(r, out, wr)
    \/ \E out \in {"ok", "srv_panic", "srv_err"}, wr \in BOOLEAN :
         generateCertServer(r, out, wr)
    \/ \E cfgOk \in BOOLEAN : main(r, cfgOk)
    \/ \E out \in {"ok", "ca_err"}, wr \in BOOLEAN : startGRPCServer(r, out, wr)
    \/ \E out \in {"ok", "srv_panic", "srv_err"}, wr \in BOOLEAN, h \in GrpcHosts :
         startGRPCServerCert(r, out, wr, h)

SpecCert == Init /\ [][CertNext]_vars

\* the functions of the state package alone: nothing else writes state.yaml
StateNext ==
  \E r \in Runs :
    \/ \E cfgOk \in BOOLEAN : Initialize(r, cfgOk)
    \/ \E out \in {"ok", "create_err", "write_err"} : InitializeCreate(r, out)
    \/ \E cfgOk \in BOOLEAN, out \in {"ok", "create_err", "write_err"} :
         SaveState(r, cfgOk, out)

SpecState == Init /\ [][StateNext]_vars

(***************************************************************************)
(* Termination of bootstrap.  Every subsystem command is started with        *)
(* exec.Command(...).Run(), without a context or a timer: when the child     *)
(* process never exits, Run never returns and the run stays in its step.     *)
(* RunStep(r) is the next step of a started run; a started run keeps being   *)
(* scheduled (weak fairness), a command that hangs does not come back.       *)
(***************************************************************************)
ExecSteps == {"lxd", "ovn", "ceph", "install"}

cmdRunBlocks(r) ==
  /\ run[r].pc \in ExecSteps
  /\ run' = [run EXCEPT ![r] = [@ EXCEPT !.pc = "blocked", !.failed = @ \cup {"hang"}]]
  /\ UNCHANGED <<db, files, host, now, join, tx>>

RunStep(r) ==
  \/ \E out \in {"ok", "ca_err"}, wr \in BOOLEAN : generateCert(r, out, wr)
  \/ \E out \in {"ok", "srv_panic", "srv_err"}, wr \in BOOLEAN :
       generateCertServer(r, out, wr)
  \/ \E connOk \in BOOLEAN, ioOk \in BOOLEAN : bootstrapDatabaseCluster(r, connOk, ioOk)
  \/ \E ioOk \in BOOLEAN : bootstrapDatabaseNode(r, ioOk)
  \/ \E ok \in BOOLEAN : lxdBootstrap(r, ok)
  \/ \E ok \in BOOLEAN : microovnBootstrap(r, ok)
  \/ \E initOk \in BOOLEAN, diskOk \in BOOLEAN : microcephBootstrap(r, initOk, diskOk)
  \/ \E ok \in BOOLEAN : installerInit(r, ok)
  \/ \E cfgOk \in BOOLEAN, out \in {"ok", "create_err", "write_err"} :
       run[r].pc = "write_state" /\ SaveState(r, cfgOk, out)

LiveNext ==
  \/ InitNext
  \/ \E r \in Runs : cmdRunBlocks(r)

SpecLive == Init /\ [][LiveNext]_vars /\ \A r \in Runs : WF_vars(RunStep(r))

(***************************************************************************)
(* Bootstrap tokens (BootstrapTokenRepository) and the join command.         *)
(***************************************************************************)
TokenIds == {"t1", "t2"}

\* BootstrapTokenRepository.Create: INSERT INTO bootstrap_tokens
TokenCreate(d, t) ==
  IF \E x \in d.tokens : x.token = t.token THEN Res("constraint", d)
  ELSE Res("", [d EXCEPT !.tokens = @ \cup {t}])

\* BootstrapTokenRepository.MarkUsed: UPDATE ... SET used = 1 WHERE token = ?
MarkUsed(d, token) ==
  Res("", [d EXCEPT !.tokens =
             {IF x.token = token THEN [x EXCEPT !.used = TRUE] ELSE x : x \in @}])

\* BootstrapTokenRepository.Delete
TokenDelete(d, token) ==
  Res("", [d EXCEPT !.tokens = {x \in @ : x.token # token}])

\* BootstrapTokenRepository.Get: the row (<<t>>) or sql.ErrNoRows (<<>>)
Get(d, token) ==
  IF \E x \in d.tokens : x.token = token
    THEN [token |-> <<CHOOSE x \in d.tokens : x.token = token>>, err |-> ""]
    ELSE [token |-> <<>>, err |-> "sql: no rows in result set"]

\* CertificateAuthorityRepository.Create: INSERT INTO certificate_authorities
CACreate(d, ca) ==
  IF \E x \in d.cas : x.id = ca.id THEN Res("constraint", d)
  ELSE Res("", [d EXCEPT !.cas = @ \cup {ca}])

\* CertificateAuthorityRepository.DeleteByID: DELETE FROM
\* certificate_authorities WHERE id = ?
CADeleteByID(d, id) == Res("", [d EXCEPT !.cas = {x \in @ : x.id # id}])

tokenCreate(t, exp, used) ==
  /\ WriteLockFree
  /\ LET res == TokenCreate(db, [token |-> t, cluster_id |-> ClusterUUID(1),
                                 expires_at |-> exp, used |-> used])
     IN res.err = "" /\ db' = res.db
  /\ UNCHANGED <<run, files, host, now, join, tx>>

tokenMarkUsed(t) ==
  /\ WriteLockFree
  /\ db' = MarkUsed(db, t).db
  /\ db' # db
  /\ UNCHANGED <<run, files, host, now, join, tx>>

tokenDelete(t) ==
  /\ WriteLockFree
  /\ db' = TokenDelete(db, t).db
  /\ db' # db
  /\ UNCHANGED <<run, files, host, now, join, tx>>

Tick ==
  /\ now < MaxTime
  /\ now' = now + 1
  /\ UNCHANGED <<db, run, files, host, join, tx>>

\* JoinCommand: parses --token and --server, rejects an empty token, prints
\* "Join command not yet implemented." and returns nil.  The join record
\* keeps what the store said about the token when it was presented.
JoinCommand(j, token) ==
  /\ join[j].pc = "idle"
  /\ LET got == Get(db, token)
         row == got.token
     IN join' = [join EXCEPT ![j] =
          [pc |-> "done", token |-> token,
           err |-> IF token = "" THEN "--token is required" ELSE "",
           valid |-> row # <<>> /\ ~row[1].used /\ ~(now > row[1].expires_at),
           expired |-> row # <<>> /\ now > row[1].expires_at,
           used |-> row # <<>> /\ row[1].used]]
  /\ UNCHANGED <<db, run, files, host, now, tx>>

JoinNext ==
  \/ \E t \in TokenIds, exp \in Times, used \in BOOLEAN : tokenCreate(t, exp, used)
  \/ \E t \in TokenIds : tokenMarkUsed(t)
  \/ \E t \in TokenIds : tokenDelete(t)
  \/ Tick
  \/ \E j \in Joins, t \in TokenIds \cup {""} : JoinCommand(j, t)

SpecJoin == Init /\ [][JoinNext]_vars

(***************************************************************************)
(* The repositories as a library: any sequence of calls of the Node,         *)
(* Cluster and KV repositories on one store.  A failing statement changes    *)
(* nothing (SQLite undoes the statement).  sqlite checks PRIMARY KEY, UNIQUE *)
(* and CHECK; with foreign_keys off, deleting a cluster leaves its nodes.    *)
(***************************************************************************)
RepoIds == {1, 2}
RepoHostnames == {"node1", "node2"}
RepoIPs == {"10.0.0.5", "10.0.0.6"}
\* constant.RoleLeader, constant.RoleMember and the 'worker' of the schema
RepoRoles == {"leader", "member", "worker"}
RepoStatuses == {"joining", "online"}
RepoNodes ==
  [id : {NodeUUID(i) : i \in RepoIds}, cluster_id : {ClusterUUID(i) : i \in RepoIds},
   hostname : RepoHostnames, ip : RepoIPs, role : RepoRoles, status : RepoStatuses]
RepoClusters ==
  [id : {ClusterUUID(i) : i \in RepoIds}, name : ValidNames, state : {"active"}]
KVKeys == {"lxd.config", "ovn.config", "ceph.config"}
KVValues == {"v1", "v2", "v3", "v4"}

\* an UPDATE of nodes that checks neither UNIQUE constraint
NodeUpdateByIDUnchecked(d, n) ==
  Res("", [d EXCEPT !.nodes =
     {IF x.id = n.id
        THEN [x EXCEPT !.hostname = n.hostname, !.ip = n.ip,
                       !.role = n.role, !.status = n.status]
        ELSE x : x \in @}])

\* NodeRepository.UpdateByID: UPDATE nodes SET hostname, ip, role, status
\* WHERE id = ?; cluster_id is not in the SET list.
NodeUpdateByID(d, n) ==
  IF ~\E x \in d.nodes : x.id = n.id THEN Res("", d)
  ELSE LET old == CHOOSE x \in d.nodes : x.id = n.id
           others == d.nodes \ {old}
       IN IF \E y \in others : y.cluster_id = old.cluster_id /\ y.hostname = n.hostname
            THEN Res("constraint", d)
          ELSE IF \E y \in others : y.cluster_id = old.cluster_id /\ y.ip = n.ip
            THEN Res("constraint", d)
          ELSE IF n.role \notin NodeRolesSQL \/ n.status \notin NodeStatuses
            THEN Res("constraint", d)
          ELSE Res("", [d EXCEPT !.nodes = others \cup
                  {[old EXCEPT !.hostname = n.hostname, !.ip = n.ip,
                               !.role = n.role, !.status = n.status]}])

\* NodeRepository.DeleteByID
NodeDeleteByID(d, id) == Res("", [d EXCEPT !.nodes = {x \in @ : x.id # id}])

\* ClusterRepository.UpdateByID: UPDATE clusters SET name, state WHERE id = ?
ClusterUpdateByID(d, c) ==
  IF c.state \notin ClusterStates /\ \E x \in d.clusters : x.id = c.id
    THEN Res("constraint", d)
  ELSE Res("", [d EXCEPT !.clusters =
         {IF x.id = c.id THEN [x EXCEPT !.name = c.name, !.state = c.state]
                         ELSE x : x \in @}])

\* ClusterRepository.DeleteByID: DELETE FROM clusters WHERE id = ?.  The rows
\* left keep their order; their rowids are counted anew from 1, the program
\* never seeing the numbers themselves.
ClusterDeleteByID(d, id) ==
  LET left == {x \in d.clusters : x.id # id} IN
  Res("", [d EXCEPT !.clusters =
     {[x EXCEPT !.rowid = Cardinality({y \in left : y.rowid <= x.rowid})] : x \in left}])

\* an INSERT INTO kv_store without the ON CONFLICT clause
KVSetInsertOnly(d, key, value) ==
  IF \E e \in d.kv : e.key = key THEN Res("constraint", d)
  ELSE Res("", [d EXCEPT !.kv = @ \cup {[key |-> key, value |-> value]}])

\* KVStoreRepository.Set: INSERT ... ON CONFLICT(key) DO UPDATE SET value
KVSet(d, key, value) ==
  Res("", [d EXCEPT !.kv = {e \in @ : e.key # key}
                            \cup {[key |-> key, value |-> value]}])

\* KVStoreRepository.Get: the row (<<e>>) or sql.ErrNoRows
KVGet(d, key) ==
  IF \E e \in d.kv : e.key = key
    THEN [kv |-> <<CHOOSE e \in d.kv : e.key = key>>, err |-> ""]
    ELSE [kv |-> <<>>, err |-> "sql: no rows in result set"]

\* KVStoreRepository.Delete
KVDelete(d, key) == Res("", [d EXCEPT !.kv = {e \in @ : e.key # key}])

\* one call of a repository on the *sql.DB
RepoCall(res) ==
  /\ WriteLockFree
  /\ db' = res.db
  /\ UNCHANGED <<run, files, host, now, join, tx>>

nodeCreate(n) == RepoCall(NodeCreate(db, n))
nodeUpdateByID(n) == RepoCall(NodeUpdateByID(db, n))
nodeDeleteByID(id) == RepoCall(NodeDeleteByID(db, id))
clusterCreate(c) == RepoCall(ClusterCreate(db, c))
clusterUpdateByID(c) == RepoCall(ClusterUpdateByID(db, c))
clusterDeleteByID(id) == RepoCall(ClusterDeleteByID(db, id))
kvSet(key, value) == RepoCall(KVSet(db, key, value))
kvDelete(key) == RepoCall(KVDelete(db, key))

RepoNext ==
  \/ \E n \in RepoNodes : nodeCreate(n)
  \/ \E n \in RepoNodes : nodeUpdateByID(n)
  \/ \E i \in RepoIds : nodeDeleteByID(NodeUUID(i))
  \/ \E c \in RepoClusters : clusterCreate(c)
  \/ \E c \in RepoClusters : clusterUpdateByID(c)
  \/ \E i \in RepoIds : clusterDeleteByID(ClusterUUID(i))

SpecRepo == Init /\ [][RepoNext]_vars

\* CertificateAuthorityRepository.Create and DeleteByID, called on the
\* database itself
RepoCAs == [id : {<<"ca", i>> : i \in RepoIds}, cluster_id : {ClusterUUID(1)}]
caCreate(ca) == RepoCall(CACreate(db, ca))
caDeleteByID(id) == RepoCall(CADeleteByID(db, id))

\* the repositories of the tables no other repository reads: kv_store and
\* certificate_authorities
KVNext ==
  \/ \E k \in KVKeys, v \in KVValues : kvSet(k, v)
  \/ \E k \in KVKeys : kvDelete(k)
  \/ \E ca \in RepoCAs : caCreate(ca)
  \/ \E ca \in RepoCAs : caDeleteByID(ca.id)

SpecKV == Init /\ [][KVNext]_vars

(***************************************************************************)
(* WithTx(ctx, db, fn): BeginTx, run fn on the transaction, Rollback and     *)
(* return fn's error, or Commit.  fn is any sequence of repository calls     *)
(* made through the transaction (New...RepositoryTx), ending with nil or an  *)
(* error.  The transaction takes the database's write lock at its first      *)
(* write and works on its own copy until it commits.                         *)
(***************************************************************************)
TxStatements ==
  { [table |-> "clusters", row |-> [id |-> <<"cluster", 0>>, name |-> "abc",
                                    state |-> "active"]],
    [table |-> "cas", row |-> [id |-> <<"ca", 0>>, cluster_id |-> <<"cluster", 0>>]] }
  \cup
  { [table |-> "tokens", row |-> [token |-> t, cluster_id |-> <<"cluster", 0>>,
                                  expires_at |-> MaxTime, used |-> FALSE]]
      : t \in TokenIds }

\* one INSERT through the repository bound to the transaction
Exec(d, st) ==
  IF st.table = "clusters" THEN ClusterCreate(d, st.row)
  ELSE IF st.table = "cas" THEN CACreate(d, st.row)
  ELSE TokenCreate(d, st.row)

\* a rollback that lets the transaction's writes through
TxRollbackKeepsWrites(d, t) == IF t.locked THEN t.db ELSE d

\* tx.Rollback(): the transaction's copy is dropped
TxRollback(d, t) == d

\* tx.Commit(): the transaction's copy becomes the database
TxCommit(d, t) == IF t.locked THEN t.db ELSE d

WithTxBegin(ok) ==
  /\ tx.state # "open"
  /\ tx' = IF ok THEN [NoTx EXCEPT !.state = "open"]
           ELSE [NoTx EXCEPT !.state = "failed", !.err = "begin"]
  /\ UNCHANGED <<db, run, files, host, now, join>>

\* fn executes one statement; a failing statement changes nothing
WithTxStatement(st) ==
  /\ tx.state = "open"
  /\ tx.n < MaxTxOps
  /\ LET base == IF tx.locked THEN tx.db ELSE db
         res == Exec(base, st)
     IN tx' = [tx EXCEPT !.n = @ + 1,
                         !.locked = TRUE,
                         !.pre = IF tx.locked THEN @ ELSE db,
                         !.db = res.db,
                         !.writes = IF res.err = "" THEN @ \cup {st} ELSE @]
  /\ UNCHANGED <<db, run, files, host, now, join>>

\* fn returns an error: WithTx rolls back and returns it
WithTxFnError ==
  /\ tx.state = "open"
  /\ db' = TxRollback(db, tx)
  /\ tx' = [NoTx EXCEPT !.state = "rolledback", !.err = "fn error",
                        !.writes = tx.writes]
  /\ UNCHANGED <<run, files, host, now, join>>

\* fn returns nil: WithTx returns tx.Commit()
WithTxFnNil(commitOk) ==
  /\ tx.state = "open"
  /\ IF commitOk
       THEN /\ db' = TxCommit(db, tx)
            /\ tx' = [NoTx EXCEPT !.state = "committed", !.writes = tx.writes]
       ELSE /\ db' = db
            /\ tx' = [NoTx EXCEPT !.state = "commit failed", !.err = "commit",
                                  !.writes = tx.writes]
  /\ UNCHANGED <<run, files, host, now, join>>

TxNext ==
  \/ \E ok \in BOOLEAN : WithTxBegin(ok)
  \/ \E st \in TxStatements : WithTxStatement(st)
  \/ WithTxFnError
  \/ \E ok \in BOOLEAN : WithTxFnNil(ok)
  \/ \E t \in TokenIds : tokenCreate(t, MaxTime, FALSE)
  \/ \E t \in TokenIds : tokenMarkUsed(t)
  \/ \E t \in TokenIds : tokenDelete(t)

SpecTx == Init /\ [][TxNext]_vars

(***************************************************************************)
(* Properties of init / bootstrap.                                           *)
(***************************************************************************)

\* position of step x in a run's log, 0 when the step was never executed
Pos(q, x) == IF x \in Range(q) THEN CHOOSE i \in 1..Len(q) : q[i] = x ELSE 0

\* the Cluster record, the leader Node record written by run r
ClusterOf(r) == {c \in db.clusters : c.id = ClusterUUID(r)}
LeaderOf(r) == {n \in db.nodes : n.cluster_id = ClusterUUID(r) /\ n.role = "leader"}

External == {"lxd", "ovn", "ceph"}

\* C1: of the init attempts that started while the store held no cluster
\* (attempts running concurrently), at most one persists a Cluster record.
C1_AtMostOneConcurrentInitPersists ==
  \A r1, r2 \in Runs :
    (r1 # r2 /\ run[r1].pre = 0 /\ run[r2].pre = 0)
      => ~(ClusterOf(r1) # {} /\ ClusterOf(r2) # {})

\* C2: bootstrap persistence is all-or-nothing: once a run has ended, its
\* Cluster record is in the store only together with its leader Node record.
C2_ClusterNeverWithoutLeader ==
  \A r \in Runs : (Done(r) /\ ClusterOf(r) # {}) => LeaderOf(r) # {}

\* C3: a run in which an external subsystem bootstrap command failed leaves
\* no Cluster record of its own in the store.
C3_NoClusterAfterExternalFailure ==
  \A r \in Runs :
    (Done(r) /\ run[r].failed \cap External # {}) => ClusterOf(r) = {}

\* C6: the store never holds more than one Cluster record, and a run that
\* starts when Count() > 0 writes no record and calls no external subsystem.
C6_AtMostOneClusterRecord ==
  /\ Count(db) <= 1
  /\ \A r \in Runs : run[r].pre > 0 => run[r].log = <<>>

\* C7: when the external command of a subsystem step fails, the run ends
\* with an error and that step is the last one it executed.
C7_FailedStepAbortsRun ==
  \A r \in Runs : \A s \in run[r].failed :
    run[r].pc = "err" /\ run[r].log[Len(run[r].log)] = s

\* C8: the Cluster and Node records are written only after the storage
\* subsystem bootstrap has succeeded (phase order ... StorageBootstrapped,
\* Persisted, Finalized).
C8_PersistOnlyAfterStorage ==
  \A r \in Runs :
    Pos(run[r].log, "cluster") > 0
      => /\ Pos(run[r].log, "ceph") > 0
         /\ Pos(run[r].log, "ceph") < Pos(run[r].log, "cluster")
         /\ "ceph" \notin run[r].failed

\* C10: an init run that retries, with the same name, a run whose network
\* step failed does not end with a cluster-name validation error.
C10_RetryPassesPreflight ==
  \A r \in Runs :
    (run[r].entry = "InitCommand" /\ run[r].retry)
      => run[r].err \notin {ErrShort, ErrCheck, ErrExists, Panic}

(***************************************************************************)
(* Properties of join and of the token repository.                           *)
(***************************************************************************)
Members == {n \in db.nodes : n.role \in {"member", "worker"}}

\* C4: of two join attempts that present the same token while it is unused
\* and unexpired, exactly one is accepted, with a node registered and the
\* token marked used, and the other is rejected with TokenUsed.
C4_TokenConsumedAtMostOnce ==
  \A j1, j2 \in Joins :
    (j1 # j2 /\ join[j1].pc = "done" /\ join[j2].pc = "done"
       /\ join[j1].token = join[j2].token /\ join[j1].valid /\ join[j2].valid)
      => /\ \/ join[j1].err = "" /\ join[j2].err = "TokenUsed"
            \/ join[j2].err = "" /\ join[j1].err = "TokenUsed"
         /\ Members # {}
         /\ \A x \in db.tokens : x.token = join[j1].token => x.used

\* C9: a join presenting a token whose expires_at has passed is rejected
\* with TokenExpired.
C9_ExpiredTokenRejected ==
  \A j \in Joins :
    (join[j].pc = "done" /\ join[j].expired) => join[j].err = "TokenExpired"

(***************************************************************************)
(* Properties of WithTx.                                                     *)
(***************************************************************************)
\* the row of statement st can be read from d (a cluster row carries, besides
\* the columns written, the rowid SQLite gave it)
Visible(d, st) ==
  IF st.table = "clusters"
    THEN \E x \in d.clusters :
           x.id = st.row.id /\ x.name = st.row.name /\ x.state = st.row.state
  ELSE st.row \in d[st.table]

\* C5: when fn returns an error WithTx returns it and the database is as it
\* was, with none of fn's writes visible; while the transaction is open none
\* of its writes is visible; when fn returns nil and the commit succeeds all
\* of fn's writes are visible.
C5_WithTxAtomic ==
  [][ /\ (tx.state = "open" /\ tx'.state = "rolledback")
         => /\ tx'.err = "fn error"
            /\ db' = db
            /\ \A st \in tx.writes : ~Visible(db', st)
      /\ (tx.state = "open" /\ tx'.state = "committed")
         => \A st \in tx.writes : Visible(db', st)
      /\ tx'.state = "open"
         => \A st \in tx'.writes : ~Visible(db', st)
    ]_vars

\* fn failed after at least two successful writes and was rolled back
C5_Witness ==
  tx.state = "rolledback" /\ Cardinality(tx.writes) >= 2

(***************************************************************************)
(* Properties of Preflight and of what a successful bootstrap leaves.        *)
(***************************************************************************)
ValidationErrors == {ErrShort, ErrCheck, ErrExists}

\* C11: an init run that ends with a validation error of Preflight has
\* created no Cluster, Node, CA or token record, has written no config file,
\* state file or certificate and has executed no step of bootstrap.
C11_PreflightFailureNoSideEffect ==
  \A r \in Runs :
    (run[r].entry = "InitCommand" /\ run[r].pc = "err"
       /\ run[r].err \in ValidationErrors)
      => /\ run[r].log = <<>>
         /\ run[r].failed = {}
         /\ ClusterOf(r) = {}
         /\ \A n \in db.nodes : n.id # NodeUUID(r) /\ n.cluster_id # ClusterUUID(r)
         /\ \A x \in db.cas \cup db.tokens : x.cluster_id # ClusterUUID(r)
         /\ files.config # r /\ files.state # r
         /\ files.ca # r /\ files.server # r

\* an init with a name of two characters was rejected
C11_Witness ==
  \E r \in Runs :
    /\ run[r].entry = "InitCommand" /\ run[r].pc = "err"
    /\ run[r].name = "ab" /\ run[r].err = ErrShort

\* C12: validateClusterName returns nil exactly when the name has at least
\* three characters and the store holds no cluster of that name; it returns
\* the length error for a shorter name and the already-exists error when a
\* cluster of that name exists.
C12_ValidateClusterNameNilIffFresh ==
  \A name \in Names :
    LET v == validateClusterName(name, TRUE, db)
        exists == \E c \in db.clusters : c.name = name
    IN /\ (v = "") <=> (Len(name) >= MinNameLen /\ ~exists)
       /\ Len(name) < MinNameLen => v = ErrShort
       /\ (Len(name) >= MinNameLen /\ exists) => v = ErrExists

\* C18: after a run that reports success the store holds the run's Cluster
\* record, its leader Node record, a CertificateAuthority record and a
\* BootstrapToken record of that cluster.
C18_SuccessPersistsAllRecords ==
  \A r \in Runs :
    (run[r].entry \in {"InitCommand", "bootstrap"} /\ run[r].pc = "ok")
      => /\ ClusterOf(r) # {}
         /\ LeaderOf(r) # {}
         /\ \E ca \in db.cas : ca.cluster_id = ClusterUUID(r)
         /\ \E t \in db.tokens : t.cluster_id = ClusterUUID(r)

\* C19: after a run that reports success the store holds exactly one Node
\* with role leader for the run's cluster, it is the run's node with status
\* online, and the run's Cluster record is there once, with state active.
C19_SuccessLeavesOneOnlineLeader ==
  \A r \in Runs :
    (run[r].entry \in {"InitCommand", "bootstrap"} /\ run[r].pc = "ok")
      => /\ Cardinality(LeaderOf(r)) = 1
         /\ \A n \in LeaderOf(r) : n.id = NodeUUID(r) /\ n.status = "online"
         /\ Cardinality(ClusterOf(r)) = 1
         /\ \A c \in ClusterOf(r) : c.state = "active" /\ c.name = run[r].name

\* a bootstrap went through all its steps
C19_Witness ==
  \E r \in Runs :
    /\ run[r].pc = "ok"
    /\ run[r].log = <<"cert", "cluster", "node", "lxd", "ovn", "ceph", "install">>

(***************************************************************************)
(* Properties of the node's files and of the credential generators.          *)
(***************************************************************************)

\* C13: once the state file has been written (with the initialized flag),
\* no operation replaces it.
C13_StateFileNeverOverwritten ==
  [][files.state # 0 => files'.state = files.state]_vars

\* C14: once bootstrap has produced the CA certificate and key, no later
\* operation, a start of the daemon included, replaces them.
C14_CAGeneratedOnce ==
  [][ (files.ca # 0 /\ run[files.ca].entry \in {"InitCommand", "bootstrap"})
        => files'.ca = files.ca ]_vars

\* C15: when the secure random source fails, GenerateJoinToken returns no
\* token.
C15_NoTokenWithoutSecureRandom ==
  \A r \in Runs :
    (run[r].entry = "GenerateJoinToken" /\ "rand" \in run[r].failed)
      => run[r].ret = <<>>

\* C16: when key generation or signing fails, GenerateCA (either of the two
\* functions of that name) reports an error, returns no certificate and no
\* key and writes nothing to the CA files.
C16_CryptoFailureYieldsNothing ==
  \A r \in Runs :
    (run[r].entry \in {"GenerateCA", "GenerateCA(files)"}
       /\ "crypto" \in run[r].failed)
      => run[r].pc = "err" /\ run[r].ret = <<>> /\ files.ca # r

\* C17: POST /cluster/init answers with success only when the request
\* created a cluster, with 409 when a cluster already exists and with 400
\* when the request fails validation.
C17_InitResponseMatchesOutcome ==
  \A r \in Runs : \A i \in 1..Len(run[r].reqs) :
    LET q == run[r].reqs[i] IN
      /\ q.status = "200" => q.created
      /\ (q.method = "POST" /\ q.decoded /\ ~q.valid) => q.status = "400"
      /\ (q.method = "POST" /\ q.decoded /\ q.valid /\ q.existed) => q.status = "409"

(***************************************************************************)
(* Termination.                                                              *)
(***************************************************************************)

\* C20: every started bootstrap run eventually ends, with success or with
\* an error.
C20_BootstrapTerminates ==
  \A r \in Runs : (run[r].pc # "idle") ~> Done(r)

(***************************************************************************)
(* Properties of the order of the steps, of the repositories, of the state   *)
(* file and of the credentials.                                              *)
(***************************************************************************)

\* C21: within one run the subsystem bootstraps are called in the order
\* lxd, microovn, microceph, each at most once and each only after the one
\* before it has returned.
C21_SubsystemOrder ==
  \A r \in Runs :
    LET l == run[r].log IN
    /\ Pos(l, "ovn") > 0 => (Pos(l, "lxd") > 0 /\ Pos(l, "lxd") < Pos(l, "ovn"))
    /\ Pos(l, "ceph") > 0 => (Pos(l, "ovn") > 0 /\ Pos(l, "ovn") < Pos(l, "ceph"))
    /\ \A i, j \in 1..Len(l) : (l[i] = l[j] /\ l[i] \in External) => i = j
    /\ run[r].pc = "ovn" => l[Len(l)] = "lxd"
    /\ run[r].pc = "ceph" => l[Len(l)] = "ovn"

\* a run called all three subsystems although the network command failed
C21_Witness ==
  \E r \in Runs : Pos(run[r].log, "ceph") > 0 /\ "ovn" \in run[r].failed

NodesUnique(d) ==
  \A x, y \in d.nodes :
    (x # y /\ x.cluster_id = y.cluster_id)
      => (x.hostname # y.hostname /\ x.ip # y.ip)

\* C22: no two nodes of one cluster share a hostname or an ip, whatever
\* Create, UpdateByID and DeleteByID calls were made; a Create or UpdateByID
\* that would produce such a pair fails, and a failed call leaves the store
\* as it was.
C22_NodeHostnameIPUnique ==
  /\ NodesUnique(db)
  /\ \A n \in RepoNodes :
       LET cr == NodeCreate(db, n)
           up == NodeUpdateByID(db, n)
       IN /\ NodesUnique(cr.db) /\ NodesUnique(up.db)
          /\ cr.err # "" => cr.db = db
          /\ up.err # "" => up.db = db
          /\ (\E x \in db.nodes : x.cluster_id = n.cluster_id
                /\ (x.hostname = n.hostname \/ x.ip = n.ip)) => cr.err # ""
          /\ (\E x, y \in db.nodes : x.id = n.id /\ y # x
                /\ y.cluster_id = x.cluster_id
                /\ (y.hostname = n.hostname \/ y.ip = n.ip)) => up.err # ""

\* two nodes of one cluster, and an update that would give the second the
\* hostname of the first is refused
C22_Witness ==
  \E x, y \in db.nodes :
    /\ x # y /\ x.cluster_id = y.cluster_id
    /\ NodeUpdateByID(db, [y EXCEPT !.hostname = x.hostname]).err = "constraint"

\* C23: no call changes the name of a cluster record that exists.
C23_ClusterNameImmutable ==
  [][ \A c \in db.clusters : \A c2 \in db'.clusters :
        c2.id = c.id => c2.name = c.name ]_vars

\* C24: the store accepts the record of a joining node, role member and
\* status joining, when its id, hostname and ip are free.
C24_JoiningMemberAccepted ==
  \A n \in RepoNodes :
    ( /\ n.role = "member" /\ n.status = "joining"
      /\ \A x \in db.nodes : x.id # n.id
      /\ \A x \in db.nodes : x.cluster_id = n.cluster_id
            => (x.hostname # n.hostname /\ x.ip # n.ip) )
      => NodeCreate(db, n).err = ""

\* C25: the KV store has at most one entry per key; Set never fails, after
\* Set(k, v) Get(k) returns v, after Delete(k) Get(k) finds nothing, and
\* neither changes what Get returns for another key.
C25_KVLastWriteWins ==
  /\ \A e1, e2 \in db.kv : e1.key = e2.key => e1 = e2
  /\ \A k \in KVKeys :
       LET del == KVDelete(db, k) IN
       /\ del.err = ""
       /\ KVGet(del.db, k).kv = <<>>
       /\ \A k2 \in KVKeys \ {k} : KVGet(del.db, k2) = KVGet(db, k2)
       /\ \A v \in KVValues :
            LET set == KVSet(db, k, v) IN
            /\ set.err = ""
            /\ KVGet(set.db, k) = [kv |-> <<[key |-> k, value |-> v]>>, err |-> ""]
            /\ \A e1, e2 \in set.db.kv : e1.key = e2.key => e1 = e2
            /\ \A k2 \in KVKeys \ {k} : KVGet(set.db, k2) = KVGet(db, k2)

\* every key is set, and a Set on one of them replaces its value
C25_Witness ==
  /\ Cardinality(db.kv) = Cardinality(KVKeys)
  /\ \E e \in db.kv : e.value = "v2" /\ KVGet(KVSet(db, e.key, "v3").db, e.key).kv[1].value = "v3"

\* C26: a call of Initialize that finds no state file writes the given
\* state and returns it (unless loading the configuration, creating or
\* writing the file fails); a call that finds a state file returns an
\* error, 'node already initialized' once the configuration is loaded, and
\* leaves the file as it is.
C26_InitializeOnce ==
  [][ \A r \in Runs :
        /\ (run[r].pc = "idle" /\ run'[r].entry = "Initialize")
             => /\ files' = files
                /\ IF files.state # 0
                     THEN /\ run'[r].pc = "err"
                          /\ run'[r].err \in {"node already initialized", "load config"}
                     ELSE \/ run'[r].pc = "create"
                          \/ run'[r].pc = "err" /\ run'[r].err = "load config"
        /\ (run[r].pc = "create" /\ run'[r].pc # "create")
             => \/ /\ run'[r].pc = "ok"
                   /\ files' = [files EXCEPT !.state = r]
                \/ /\ run'[r].pc = "err"
                   /\ run'[r].err \in {"io", "write"} ]_vars

\* a second Initialize was refused and the file of the first is still there
C26_Witness ==
  \E r, q \in Runs :
    /\ r # q /\ files.state = q /\ run[q].entry = "Initialize" /\ run[q].pc = "ok"
    /\ run[r].entry = "Initialize" /\ run[r].err = "node already initialized"

URLSafe == {B64Alphabet[i] : i \in 1..Len(B64Alphabet)}

\* C27: a generated token is "mcloud", the first 8 characters of the
\* cluster id and 16 URL-safe characters.
C27_TokenShape ==
  \A r \in Runs :
    (run[r].entry = "GenerateJoinToken" /\ run[r].pc = "ok")
      => LET t == run[r].ret IN
         /\ Len(t) = 3 /\ t[1] = "mcloud"
         /\ \E c \in ClusterIDs : Len(c) >= PrefixLen /\ t[2] = SubSeq(c, 1, PrefixLen)
         /\ Len(t[3]) = SuffixLen
         /\ \A i \in 1..Len(t[3]) : t[3][i] \in URLSafe

\* C28: a server certificate issued under the CA of a run (by generateCert
\* or by startGRPCServer) verifies against that CA's certificate, whatever
\* the usage (the verification asks for none), and does not verify against
\* the CA certificate of another run, whatever usage is asked for.
C28_LeafVerifiesOnlyAgainstIssuer ==
  \A a, b \in Runs :
    (run[a].leaf # <<>> /\ run[a].ca # <<>> /\ run[b].ca # <<>>)
      => /\ Verify(run[a].leaf[1], run[a].ca[1].der, now, {"Any"})
         /\ a # b => \A u \in KeyUsageOptions :
                       ~Verify(run[a].leaf[1], run[b].ca[1].der, now, u)

\* C29: a server certificate is valid for at most 365 days, and for less
\* than the CA certificate it was issued under.
C29_LeafValidityAtMostOneYear ==
  \A r \in Runs :
    (run[r].leaf # <<>> /\ run[r].ca # <<>>)
      => LET c == run[r].leaf[1].tbs
             ca == run[r].ca[1].der.tbs
         IN /\ c.notAfter - c.notBefore <= 365
            /\ c.notAfter - c.notBefore < ca.notAfter - ca.notBefore

\* C30: InitCommand does not go on with a missing connection or a missing
\* configuration: no run of InitCommand ends in the nil-pointer panic of a
\* later step.
C30_InitStopsOnConfigOrConnectError ==
  \A r \in Runs : run[r].entry = "InitCommand" => run[r].pc # "panic"

(***************************************************************************)
(* Properties of State.Initialize under concurrency and failure.             *)
(***************************************************************************)

\* C33: of the calls of Initialize made on a node that had no state file, at
\* most one returns success, and the file holds the state of that call.
C33_ConcurrentInitializeOneWinner ==
  /\ Cardinality({r \in Runs : run[r].entry = "Initialize" /\ run[r].pc = "ok"}) <= 1
  /\ \A r \in Runs :
       (run[r].entry = "Initialize" /\ run[r].pc = "ok"
          /\ files.state # 0 /\ run[files.state].entry = "Initialize")
         => files.state = r

\* C34: a call of Initialize that returned an error other than 'node already
\* initialized' has left no state file behind.
C34_FailedInitializeLeavesNoFile ==
  \A r \in Runs :
    (run[r].entry = "Initialize" /\ run[r].pc = "err"
       /\ run[r].err # "node already initialized")
      => files.state # r

(***************************************************************************)
(* Properties of GenerateJoinToken on short ids and of the daemon's          *)
(* shutdown.                                                                 *)
(***************************************************************************)

\* C37: GenerateJoinToken returns a token for every cluster id, ids shorter
\* than 8 characters included, and never aborts its caller.
C37_TokenForEveryClusterId ==
  \A r \in Runs :
    run[r].entry = "GenerateJoinToken"
      => run[r].pc = "ok" /\ run[r].ret # <<>>

\* C38: after an interrupt, mcloudd has not exited unless the graceful
\* shutdown of the HTTP server has completed.
C38_ExitAfterHTTPShutdown ==
  \A r \in Runs :
    (run[r].entry = "mcloudd" /\ run[r].pc = "exited")
      => "http shutdown" \in Range(run[r].log)

(***************************************************************************)
(* Referential integrity of the store.                                       *)
(***************************************************************************)

\* C32: every Node, BootstrapToken and CertificateAuthority record names, in
\* cluster_id, a Cluster record that exists: an insert for a cluster that
\* does not exist fails and deleting a cluster removes its dependents.
C32_ClusterReferencesResolve ==
  \A x \in db.nodes \cup db.tokens \cup db.cas :
    \E c \in db.clusters : c.id = x.cluster_id

(***************************************************************************)
(* utils.GetLocalIPv4 (and its copy getLocalIPv4 of mcloudctl init).  A      *)
(* name is a sequence of characters, an IP a sequence of bytes (4 for        *)
(* IPv4, 16 for IPv6), an address has the dynamic type net.Interfaces gave   *)
(* it, and the empty string of the code is <<>>.                             *)
(***************************************************************************)
MaxIfaces == 3

LanPrefixes ==
  { <<"e","t","h">>, <<"e","n">>, <<"E","t","h","e","r","n","e","t">>,
    <<"L","o","c","a","l"," ","A","r","e","a"," ","C","o","n","n","e","c","t","i","o","n">> }

IsLANInterface(name) ==
  \E p \in LanPrefixes : Len(name) >= Len(p) /\ SubSeq(name, 1, Len(p)) = p

\* 10.0.0.0/8, 172.16.0.0/12, 192.168.0.0/16
IsPrivateIP(ip) ==
  LET v == To4(ip) IN
    /\ v # <<>>
    /\ \/ v[1] = 10
       \/ v[1] = 172 /\ v[2] \div 16 = 1
       \/ v[1] = 192 /\ v[2] = 168

V6(last) == <<254, 128, 0, 0, 0, 0, 0, 0, 0, 0, 0, 0, 0, 0, 0, last>>
IPNet(ip) == [kind |-> "IPNet", ip |-> ip]
IPAddr(ip) == [kind |-> "IPAddr", ip |-> ip]
Iface(name, up, loopback, addrsOk, addrs) ==
  [name |-> name, up |-> up, loopback |-> loopback, addrsOk |-> addrsOk,
   addrs |-> addrs]

\* the interfaces a host may have
IfacePool ==
  { Iface(<<"l","o">>, TRUE, TRUE, TRUE, <<IPNet(<<127, 0, 0, 1>>)>>),
    Iface(<<"e","t","h","0">>, TRUE, FALSE, TRUE, <<IPNet(<<8, 8, 8, 8>>)>>),
    Iface(<<"e","n","s","3">>, TRUE, FALSE, TRUE,
          <<IPNet(V6(1)), IPNet(Mapped(192, 168, 1, 10))>>),
    Iface(<<"e","n","p","2">>, TRUE, FALSE, TRUE,
          <<IPNet(<<1, 2, 3, 4>>), IPNet(<<10, 0, 0, 7>>)>>),
    Iface(<<"d","o","c","k","e","r","0">>, TRUE, FALSE, TRUE,
          <<IPNet(<<172, 32, 0, 1>>), IPNet(<<172, 17, 0, 1>>)>>),
    Iface(<<"w","l","a","n","0">>, TRUE, FALSE, TRUE,
          <<IPAddr(<<10, 0, 0, 3>>), IPNet(<<192, 169, 1, 1>>)>>),
    Iface(<<"e","t","h","1">>, FALSE, FALSE, TRUE, <<IPNet(<<10, 0, 0, 9>>)>>),
    Iface(<<"e","t","h","2">>, TRUE, FALSE, FALSE, <<IPNet(<<10, 0, 0, 8>>)>>) }

\* what net.Interfaces() returns: a list of distinct interfaces, or an
\* error and no list
InterfacesResults ==
  { [err |-> FALSE, ifaces |-> q] :
      q \in { s \in UNION { [1..n -> IfacePool] : n \in 0..MaxIfaces } :
                \A i, j \in 1..Len(s) : i # j => s[i] # s[j] } }
  \cup { [err |-> TRUE, ifaces |-> <<>>] }

NoIP == [found |-> <<>>, lanIP |-> <<>>, otherIP |-> <<>>]

\* the inner loop, from address j of the interface on
RECURSIVE ScanAddrs(_, _, _, _)
ScanAddrs(name, addrs, j, acc) ==
  IF j > Len(addrs) THEN acc
  ELSE LET a == addrs[j]
           ip == To4(a.ip)
       IN IF a.kind # "IPNet" \/ ip = <<>> THEN ScanAddrs(name, addrs, j + 1, acc)
          ELSE IF IsLANInterface(name) /\ IsPrivateIP(ip)
            THEN [acc EXCEPT !.found = ip]
          ELSE LET acc1 == IF acc.lanIP = <<>> /\ IsLANInterface(name)
                             THEN [acc EXCEPT !.lanIP = ip] ELSE acc
                   acc2 == IF acc1.otherIP = <<>> /\ IsPrivateIP(ip)
                             THEN [acc1 EXCEPT !.otherIP = ip] ELSE acc1
               IN ScanAddrs(name, addrs, j + 1, acc2)

\* the outer loop, from interface i on
RECURSIVE ScanIfaces(_, _, _)
ScanIfaces(ifaces, i, acc) ==
  IF i > Len(ifaces) THEN acc
  ELSE LET f == ifaces[i] IN
       IF ~f.up \/ f.loopback \/ ~f.addrsOk THEN ScanIfaces(ifaces, i + 1, acc)
       ELSE LET acc1 == ScanAddrs(f.name, f.addrs, 1, acc) IN
            IF acc1.found # <<>> THEN acc1
            ELSE ScanIfaces(ifaces, i + 1, acc1)

\* a GetLocalIPv4 that prefers the first private address to the first
\* address of a LAN interface
GetLocalIPv4OtherFirst(in) ==
  IF in.err THEN [ip |-> <<>>, err |-> "interfaces"]
  ELSE LET acc == ScanIfaces(in.ifaces, 1, NoIP) IN
       IF acc.found # <<>> THEN [ip |-> acc.found, err |-> ""]
       ELSE IF acc.otherIP # <<>> THEN [ip |-> acc.otherIP, err |-> ""]
       ELSE IF acc.lanIP # <<>> THEN [ip |-> acc.lanIP, err |-> ""]
       ELSE [ip |-> <<>>, err |-> "no IPv4 address found"]

GetLocalIPv4(in) ==
  IF in.err THEN [ip |-> <<>>, err |-> "interfaces"]
  ELSE LET acc == ScanIfaces(in.ifaces, 1, NoIP) IN
       IF acc.found # <<>> THEN [ip |-> acc.found, err |-> ""]
       ELSE IF acc.lanIP # <<>> THEN [ip |-> acc.lanIP, err |-> ""]
       ELSE IF acc.otherIP # <<>> THEN [ip |-> acc.otherIP, err |-> ""]
       ELSE [ip |-> <<>>, err |-> "no IPv4 address found"]

\* One call of GetLocalIPv4 on a host whose net.Interfaces() gives in; the
\* function reads nothing else and writes nothing, so one call shows all it
\* does.  reqs keeps what the call was given.
utilsGetLocalIPv4(in) ==
  /\ run[1].pc = "idle"
  /\ LET res == GetLocalIPv4(in) IN
     run' = [run EXCEPT ![1] =
       [@ EXCEPT !.entry = "GetLocalIPv4",
                 !.pc = IF res.err = "" THEN "ok" ELSE "err",
                 !.err = res.err,
                 !.ret = IF res.err = "" THEN <<res.ip>> ELSE <<>>,
                 !.reqs = <<in>>]]
  /\ UNCHANGED <<db, files, host, now, join, tx>>

NetNext == \E in \in InterfacesResults : utilsGetLocalIPv4(in)

SpecNet == Init /\ [][NetNext]_vars

\* The addresses GetLocalIPv4 chooses among: position <<i, j>> of every IPv4
\* address of an interface that is up, is not the loopback and gave its
\* addresses.
UsableAddrs(ifaces) ==
  { p \in UNION { {<<i, j>> : j \in 1..Len(ifaces[i].addrs)} : i \in 1..Len(ifaces) } :
      /\ ifaces[p[1]].up /\ ~ifaces[p[1]].loopback /\ ifaces[p[1]].addrsOk
      /\ ifaces[p[1]].addrs[p[2]].kind = "IPNet"
      /\ To4(ifaces[p[1]].addrs[p[2]].ip) # <<>> }
AddrAt(ifaces, p) == To4(ifaces[p[1]].addrs[p[2]].ip)
OnLAN(ifaces, S) == {p \in S : IsLANInterface(ifaces[p[1]].name)}
PrivateOf(ifaces, S) == {p \in S : IsPrivateIP(AddrAt(ifaces, p))}
FirstOf(S) ==
  CHOOSE p \in S : \A q \in S : p[1] < q[1] \/ (p[1] = q[1] /\ p[2] <= q[2])

\* C39: over the interfaces that are up and not the loopback, GetLocalIPv4
\* returns a private IPv4 address of a LAN-named interface when there is
\* one, otherwise the first IPv4 address of a LAN-named interface, otherwise
\* the first private IPv4 address of any interface, and an error only when
\* there is none of these.
C39_LocalIPv4Priority ==
  (run[1].entry = "GetLocalIPv4") =>
    LET ifaces == run[1].reqs[1].ifaces
        all == UsableAddrs(ifaces)
        lan == OnLAN(ifaces, all)
        priv == PrivateOf(ifaces, all)
    IN IF lan \cap priv # {}
         THEN /\ run[1].pc = "ok"
              /\ \E p \in lan \cap priv : run[1].ret[1] = AddrAt(ifaces, p)
       ELSE IF lan # {}
         THEN run[1].pc = "ok" /\ run[1].ret[1] = AddrAt(ifaces, FirstOf(lan))
       ELSE IF priv # {}
         THEN run[1].pc = "ok" /\ run[1].ret[1] = AddrAt(ifaces, FirstOf(priv))
       ELSE run[1].pc = "err"

\* a private address on another interface comes first, no LAN interface has
\* a private address, and the address of the LAN interface was returned
C39_Witness ==
  /\ run[1].entry = "GetLocalIPv4" /\ run[1].pc = "ok"
  /\ LET ifaces == run[1].reqs[1].ifaces
         all == UsableAddrs(ifaces)
         lan == OnLAN(ifaces, all)
         priv == PrivateOf(ifaces, all)
     IN /\ lan \cap priv = {} /\ lan # {} /\ priv # {}
        /\ FirstOf(priv)[1] < FirstOf(lan)[1]
        /\ run[1].ret[1] = AddrAt(ifaces, FirstOf(lan))

(***************************************************************************)
(* Database.Migrate.  The log of a Migrate run holds what it did to each     *)
(* file: "skip f", "exec f" (s.db.Exec of the file's SQL returned nil) and   *)
(* "record f" (the row of schema_migrations was inserted).  The rows of      *)
(* schema_migrations are the files some run has recorded.  Every statement   *)
(* runs on s.db directly, outside any transaction.                           *)
(***************************************************************************)

\* the .sql files of the migrations directory, as os.ReadDir lists them
\* (sorted by filename) and sort.Strings leaves them
MigrationFiles == <<"001_init.sql", "002_alter.sql">>

ExecEvent(f) == "exec " \o f
RecordEvent(f) == "record " \o f
SkipEvent(f) == "skip " \o f

\* SELECT COUNT(*) FROM schema_migrations WHERE filename = ? gives more than 0
migrationApplied(f) ==
  \E q \in Runs : run[q].entry = "Migrate" /\ RecordEvent(f) \in Range(run[q].log)

\* the position of the loop: the files this run has skipped or recorded
Handled(r) ==
  Cardinality({ i \in 1..Len(run[r].log) :
                  \E f \in Range(MigrationFiles) :
                    run[r].log[i] \in {SkipEvent(f), RecordEvent(f)} })

\* the run has executed the SQL of a file and not yet recorded it
Executed(r) ==
  /\ Len(run[r].log) > 0
  /\ \E f \in Range(MigrationFiles) : run[r].log[Len(run[r].log)] = ExecEvent(f)

\* Migrate up to the loop: ensureMigrationsTable and os.ReadDir.  Connect
\* calls Migrate in every process that opens the database, and nothing
\* keeps two of them apart.
Migrate(r, ok) ==
  /\ run[r].pc = "idle"
  /\ run' = [run EXCEPT ![r] =
       IF ok THEN [@ EXCEPT !.entry = "Migrate", !.pc = "migrate"]
       ELSE [@ EXCEPT !.entry = "Migrate", !.pc = "err", !.err = "io"]]
  /\ UNCHANGED <<db, files, host, now, join, tx>>

\* one turn of the loop, the check: after the last file Migrate returns nil;
\* a file that migrationApplied finds is skipped; for another one the run
\* goes on to read and execute it.  Nothing holds the database between the
\* check and the Exec, so another run may record the file in between.
MigrateCheck(r, ok) ==
  /\ run[r].pc = "migrate"
  /\ ~Executed(r)
  /\ IF Handled(r) = Len(MigrationFiles)
       THEN run' = [run EXCEPT ![r] = [@ EXCEPT !.pc = "ok"]]
     ELSE LET f == MigrationFiles[Handled(r) + 1] IN
          IF ~ok THEN run' = [run EXCEPT ![r] = Fail(r, "check")]
          ELSE IF migrationApplied(f)
            THEN run' = [run EXCEPT ![r] = [@ EXCEPT !.log = Append(@, SkipEvent(f))]]
          ELSE run' = [run EXCEPT ![r] = [@ EXCEPT !.pc = "migrate_exec"]]
  /\ UNCHANGED <<db, files, host, now, join, tx>>

\* os.ReadFile and s.db.Exec of the file the check let through, whatever
\* has been recorded since
MigrateExec(r, ok) ==
  /\ run[r].pc = "migrate_exec"
  /\ LET f == MigrationFiles[Handled(r) + 1] IN
     run' = [run EXCEPT ![r] =
       IF ~ok THEN Fail(r, "exec")
       ELSE [@ EXCEPT !.pc = "migrate", !.log = Append(@, ExecEvent(f))]]
  /\ UNCHANGED <<db, files, host, now, join, tx>>

\* recordMigration: INSERT INTO schema_migrations, whose primary key is the
\* filename
MigrateRecord(r, ok) ==
  /\ run[r].pc = "migrate"
  /\ Executed(r)
  /\ LET f == MigrationFiles[Handled(r) + 1] IN
     IF ~ok \/ migrationApplied(f)
       THEN run' = [run EXCEPT ![r] = Fail(r, "record")]
     ELSE run' = [run EXCEPT ![r] = [@ EXCEPT !.log = Append(@, RecordEvent(f))]]
  /\ UNCHANGED <<db, files, host, now, join, tx>>

\* the process is stopped (a signal, a crash, power) while Migrate runs;
\* what the statements already executed did to the database stays
MigrateInterrupt(r) ==
  /\ run[r].pc \in {"migrate", "migrate_exec"}
  /\ run' = [run EXCEPT ![r] = [@ EXCEPT !.pc = "killed", !.err = "interrupted"]]
  /\ UNCHANGED <<db, files, host, now, join, tx>>

MigrateNext ==
  \E r \in Runs :
    \/ \E ok \in BOOLEAN : Migrate(r, ok)
    \/ \E ok \in BOOLEAN : MigrateCheck(r, ok)
    \/ \E ok \in BOOLEAN : MigrateExec(r, ok)
    \/ \E ok \in BOOLEAN : MigrateRecord(r, ok)
    \/ MigrateInterrupt(r)

SpecMigrate == Init /\ [][MigrateNext]_vars

\* where, in the logs of all runs, an event stands
Occurrences(ev) ==
  UNION { { <<r, i>> : i \in {k \in 1..Len(run[r].log) : run[r].log[k] = ev} } :
          r \in Runs }

\* C35: over all runs of Migrate on one database, a run stopped between the
\* execution of a migration and its recording included, every migration
\* file is executed at most once and recorded at most once, and each run
\* takes the files in ascending order of their names.
C35_MigrationsAppliedOnce ==
  /\ \A f \in Range(MigrationFiles) :
       /\ Cardinality(Occurrences(ExecEvent(f))) <= 1
       /\ Cardinality(Occurrences(RecordEvent(f))) <= 1
  /\ \A r \in Runs, i, j \in 1..Len(MigrationFiles) :
       (i < j /\ ExecEvent(MigrationFiles[i]) \in Range(run[r].log)
              /\ ExecEvent(MigrationFiles[j]) \in Range(run[r].log))
         => Pos(run[r].log, ExecEvent(MigrationFiles[i]))
              < Pos(run[r].log, ExecEvent(MigrationFiles[j]))

(***************************************************************************)
(* installer.Init, step by step.  An environment says whether the process    *)
(* runs as root and which of the steps would fail in it; the result is the   *)
(* error returned and the steps started, in the order they were started.     *)
(***************************************************************************)
InstallOrder ==
  <<"installBinary", "writeUnitFile", "systemctl daemon-reload",
    "systemctl enable", "systemctl start">>

InstallEnvs == [root : BOOLEAN, ok : [Range(InstallOrder) -> BOOLEAN]]

\* an Init that goes on after a failed daemon-reload
InstallerInitIgnoresReload(env) ==
  IF ~env.root THEN [err |-> "must run as root", steps |-> <<>>]
  ELSE IF ~env.ok["installBinary"]
    THEN [err |-> "installBinary", steps |-> SubSeq(InstallOrder, 1, 1)]
  ELSE IF ~env.ok["writeUnitFile"]
    THEN [err |-> "writeUnitFile", steps |-> SubSeq(InstallOrder, 1, 2)]
  ELSE IF ~env.ok["systemctl enable"]
    THEN [err |-> "systemctl enable", steps |-> SubSeq(InstallOrder, 1, 4)]
  ELSE IF ~env.ok["systemctl start"]
    THEN [err |-> "systemctl start", steps |-> SubSeq(InstallOrder, 1, 5)]
  ELSE [err |-> "", steps |-> InstallOrder]

InstallerInit(env) ==
  IF ~env.root THEN [err |-> "must run as root", steps |-> <<>>]
  ELSE IF ~env.ok["installBinary"]
    THEN [err |-> "installBinary", steps |-> <<"installBinary">>]
  ELSE IF ~env.ok["writeUnitFile"]
    THEN [err |-> "writeUnitFile", steps |-> <<"installBinary", "writeUnitFile">>]
  ELSE IF ~env.ok["systemctl daemon-reload"]
    THEN [err |-> "systemctl daemon-reload",
          steps |-> <<"installBinary", "writeUnitFile", "systemctl daemon-reload">>]
  ELSE IF ~env.ok["systemctl enable"]
    THEN [err |-> "systemctl enable",
          steps |-> <<"installBinary", "writeUnitFile", "systemctl daemon-reload",
                      "systemctl enable">>]
  ELSE IF ~env.ok["systemctl start"]
    THEN [err |-> "systemctl start",
          steps |-> <<"installBinary", "writeUnitFile", "systemctl daemon-reload",
                      "systemctl enable", "systemctl start">>]
  ELSE [err |-> "",
        steps |-> <<"installBinary", "writeUnitFile", "systemctl daemon-reload",
                    "systemctl enable", "systemctl start">>]

\* a call of installer.Init in environment env; reqs keeps the environment
installerInitCall(r, env) ==
  /\ run[r].pc = "idle"
  /\ LET res == InstallerInit(env) IN
     run' = [run EXCEPT ![r] =
       [@ EXCEPT !.entry = "installer.Init",
                 !.pc = IF res.err = "" THEN "ok" ELSE "err",
                 !.err = res.err,
                 !.log = res.steps,
                 !.reqs = <<env>>]]
  /\ UNCHANGED <<db, files, host, now, join, tx>>

InstallNext == \E r \in Runs, env \in InstallEnvs : installerInitCall(r, env)

SpecInstall == Init /\ [][InstallNext]_vars

\* C36: installer.Init takes its steps in the order root check, binary copy,
\* unit file, systemctl daemon-reload, enable, start, and stops at the first
\* step that fails; not run as root, it returns 'must run as root' and has
\* written no file and called no systemctl.
C36_InstallerStepsInOrder ==
  \A r \in Runs :
    run[r].entry = "installer.Init" =>
      LET env == run[r].reqs[1]
          done == run[r].log
          bad == {i \in 1..Len(InstallOrder) : ~env.ok[InstallOrder[i]]}
      IN IF ~env.root
           THEN run[r].err = "must run as root" /\ done = <<>>
         ELSE /\ Len(done) <= Len(InstallOrder)
              /\ \A i \in 1..Len(done) : done[i] = InstallOrder[i]
              /\ \A i \in 1..Len(done) : i < Len(done) => i \notin bad
              /\ IF bad = {}
                   THEN run[r].pc = "ok" /\ Len(done) = Len(InstallOrder)
                 ELSE /\ run[r].pc = "err"
                      /\ Len(done) \in bad
                      /\ run[r].err = InstallOrder[Len(done)]

\* a call as root stopped at a failing daemon-reload although enable and
\* start would have worked, and a call not as root did nothing
C36_Witness ==
  \E r, q \in Runs :
    /\ run[r].entry = "installer.Init" /\ run[r].err = "systemctl daemon-reload"
    /\ run[r].reqs[1].ok["systemctl start"]
    /\ run[r].log = SubSeq(InstallOrder, 1, 3)
    /\ run[q].entry = "installer.Init" /\ run[q].err = "must run as root"

====
